---- MODULE Spec2Model ----
(***************************************************************************)
(* Model of the spending tracker's import and reconciliation engine:       *)
(* the CSV helpers of data.ts (toISO, parseNumber, cleanStr, fingerprint), *)
(* the persistence calls (addTransaction, listTransactions) and the        *)
(* handlers of Tracker.tsx (commitImport, onAdd, onSelectHousehold, the    *)
(* sign-convention checkbox).                                              *)
(*                                                                         *)
(* Conventions.  A JavaScript string is the sequence of its UTF-16 code    *)
(* units (65 is "A", 32 the space).  null is the one-element sequence      *)
(* Null, which is no string.  A JavaScript number that holds money is an   *)
(* integer count of thousandths (45.00 is 45000), NaN is the record NaN.   *)
(* A calendar instant is a count of days since 1970-01-01 (UTC).           *)
(***************************************************************************)
EXTENDS Integers, Sequences, FiniteSets, TLC

VARIABLES
    dateImpl,          \* what the host's Date.parse does with a non-ISO string
    store,             \* the rows of the transactions table
    nextId,            \* the id the table gives its next row
    householdId,       \* the active household (component state)
    negativesAreSpend, \* the sign-convention checkbox (component state)
    lsNegSpend,        \* localStorage item negatives_are_spend
    lsRules,           \* localStorage items spendr_learn_rules_<household>
    learnRules,        \* the learn rules in memory
    formCategory,      \* the category field of the manual-entry form
    txns,              \* the transaction list in memory
    listInFlight,      \* households whose list query has not returned yet
    showPreview,       \* the import preview is open
    previewRows,       \* the parsed rows of the uploaded sheet
    mapping,           \* the column mapping shown in the preview
    importBusy,        \* commitImport is running
    importPc,          \* "idle", "await" (an insert is in flight), "alert"
                       \* (the closing alert is on screen) or "done"
    imp,               \* what the running commitImport closed over
    idx,               \* rows of imp.rows dealt with so far
    added,             \* commitImport's counter added
    skipped,           \* commitImport's counter skipped
    inflight,          \* the transaction commitImport awaits, or <<>>
    alerted,           \* the alert box on screen, NoAlert when none
    rowLog,            \* history: what became of each row of the running import
    lastInsert,        \* history: the last answer of addTransaction
    runFlag,           \* history: lsNegSpend when the running import began
    prevRun,           \* history: the import before, if this one repeats it
    nImports,          \* imports started, for MaxImports
    nFailures,         \* failed inserts, for MaxInsertFailures
    nManual,           \* manual entries, for MaxManual
    nSwitches,         \* household switches, for MaxSwitches
    fnPc,              \* "ready" before the pure function under test is called
    fnIn,              \* its arguments
    fnOut,             \* its result once fnPc is "done"
    formChosen,        \* history: the form's category was picked by the user
    edits,             \* the onChangeCategory calls awaiting updateTransaction
    nEdits,            \* category corrections started, for MaxEdits
    cats,              \* table categories
    budgets,           \* table budgets
    ren,               \* the renameCategoryAndMigrate call under way
    del,               \* the deleteCategoryIfUnused call under way
    lsActive,          \* localStorage item active_household_id
    dbHouseholds,      \* table households as the user sees it, oldest first
    households,        \* the household list in memory
    delHH              \* the onDeleteHousehold call under way

(***************************************************************************)
(* Strings                                                                 *)
(***************************************************************************)
Null == <<-1>>

Falsy(s) == s = Null \/ s = <<>>

IsDigit(c) == c \in 48..57

\* \s of a JavaScript regular expression, within the characters used here
IsSpace(c) == c \in {9, 10, 11, 12, 13, 32, 160}

RECURSIVE Pad(_, _)
\* n >= 0 in decimal, left-padded with zeros to at least w digits
Pad(n, w) ==
    IF n < 10 /\ w <= 1 THEN <<48 + n>>
    ELSE Append(Pad(n \div 10, w - 1), 48 + (n % 10))

\* String(n) for an integer n
IntToStr(n) == IF n < 0 THEN <<45>> \o Pad(0 - n, 1) ELSE Pad(n, 1)

RECURSIVE DigitsVal(_)
\* Number(s) for a string of decimal digits
DigitsVal(s) ==
    IF s = <<>> THEN 0
    ELSE 10 * DigitsVal(SubSeq(s, 1, Len(s) - 1)) + (s[Len(s)] - 48)

DigitRun(s, i, n) ==
    /\ i >= 1
    /\ i + n - 1 <= Len(s)
    /\ \A k \in i..(i + n - 1) : IsDigit(s[k])

(***************************************************************************)
(* Calendar arithmetic of the JavaScript Date object (proleptic            *)
(* Gregorian, UTC)                                                         *)
(***************************************************************************)
IsLeap(y) == (y % 4 = 0 /\ y % 100 # 0) \/ y % 400 = 0

DaysInMonth(y, m) ==
    IF m = 2 THEN (IF IsLeap(y) THEN 29 ELSE 28)
    ELSE IF m \in {4, 6, 9, 11} THEN 30 ELSE 31

\* days from 1970-01-01 to the civil date y-m-d, m in 1..12
DaysFromCivil(y, m, d) ==
    LET yy  == IF m <= 2 THEN y - 1 ELSE y
        era == yy \div 400
        yoe == yy - era * 400
        mp  == IF m > 2 THEN m - 3 ELSE m + 9
        doy == (153 * mp + 2) \div 5 + d - 1
        doe == yoe * 365 + yoe \div 4 - yoe \div 100 + doy
    IN  era * 146097 + doe - 719468

\* the civil date of a day count, as [y, m, d]
CivilFromDays(z0) ==
    LET z   == z0 + 719468
        era == z \div 146097
        doe == z - era * 146097
        yoe == (doe - doe \div 1460 + doe \div 36524 - doe \div 146096) \div 365
        doy == doe - (365 * yoe + yoe \div 4 - yoe \div 100)
        mp  == (5 * doy + 2) \div 153
        d   == doy - (153 * mp + 2) \div 5 + 1
        m   == IF mp < 10 THEN mp + 3 ELSE mp - 9
        y   == yoe + era * 400 + (IF m <= 2 THEN 1 ELSE 0)
    IN  [y |-> y, m |-> m, d |-> d]

\* Date.UTC(year, monthIndex, day): an out-of-range month index carries into
\* the year and an out-of-range day into the neighbouring months
DateUTC(year, monthIndex, day) ==
    LET ym == year + monthIndex \div 12
        mn == monthIndex % 12
    IN  DaysFromCivil(ym, mn + 1, 1) + day - 1

\* date.toISOString().slice(0,10), for years 0..9999
ISODate(days) ==
    LET c == CivilFromDays(days)
    IN  Pad(c.y, 4) \o <<45>> \o Pad(c.m, 2) \o <<45>> \o Pad(c.d, 2)

(***************************************************************************)
(* new Date(d) on a string.  The language fixes the result for the ISO     *)
(* form YYYY-MM-DD (midnight UTC) and leaves every other string to the     *)
(* host; dateImpl is the host: "isoOnly" rejects them, "mdyLocalWest" and  *)
(* "mdyLocalEast" read M/D/Y as local midnight, which is the same UTC day  *)
(* west of Greenwich and the day before east of it.  The result is a day   *)
(* count, or NaN for an Invalid Date.                                      *)
(***************************************************************************)
NaN == [fin |-> FALSE, v |-> 0]

Num(n) == [fin |-> TRUE, v |-> n]

DateImpls == {"isoOnly", "mdyLocalWest", "mdyLocalEast"}

IsIsoShape(s) ==
    /\ Len(s) = 10
    /\ DigitRun(s, 1, 4) /\ s[5] = 45
    /\ DigitRun(s, 6, 2) /\ s[8] = 45
    /\ DigitRun(s, 9, 2)

\* the whole string is digits/digits/digits with 1-2, 1-2 and 2 or 4 digits
SlashShape(s) ==
    {sh \in [la : {1, 2}, lb : {1, 2}, lc : {2, 4}] :
        /\ Len(s) = sh.la + sh.lb + sh.lc + 2
        /\ DigitRun(s, 1, sh.la) /\ s[sh.la + 1] = 47
        /\ DigitRun(s, sh.la + 2, sh.lb) /\ s[sh.la + sh.lb + 2] = 47
        /\ DigitRun(s, sh.la + sh.lb + 3, sh.lc)}

NewDate(s, impl) ==
    IF IsIsoShape(s)
    THEN LET y == DigitsVal(SubSeq(s, 1, 4))
             m == DigitsVal(SubSeq(s, 6, 7))
             d == DigitsVal(SubSeq(s, 9, 10))
         IN  IF m \in 1..12 /\ d \in 1..DaysInMonth(y, m)
             THEN Num(DaysFromCivil(y, m, d)) ELSE NaN
    ELSE IF impl # "isoOnly" /\ SlashShape(s) # {}
    THEN LET sh == CHOOSE x \in SlashShape(s) : TRUE
             a  == DigitsVal(SubSeq(s, 1, sh.la))
             b  == DigitsVal(SubSeq(s, sh.la + 2, sh.la + sh.lb + 1))
             c  == DigitsVal(SubSeq(s, sh.la + sh.lb + 3, Len(s)))
             y  == IF c < 50 THEN 2000 + c ELSE IF c < 100 THEN 1900 + c ELSE c
         IN  IF a \in 1..12 /\ b \in 1..31
             THEN Num(DaysFromCivil(y, a, 1) + b - 1
                      - (IF impl = "mdyLocalEast" THEN 1 ELSE 0))
             ELSE NaN
    ELSE NaN

(***************************************************************************)
(* toISO                                                                   *)
(***************************************************************************)
IsSep(c) == c \in {47, 45}

\* d.match(/(\d{1,2})[\/\-](\d{1,2})[\/\-](\d{2,4})/): every way the pattern
\* fits somewhere in s
DmyMatches(s) ==
    {mt \in [i : 1..Len(s), la : {1, 2}, lb : {1, 2}, lc : {2, 3, 4}] :
        /\ DigitRun(s, mt.i, mt.la)
        /\ mt.i + mt.la <= Len(s) /\ IsSep(s[mt.i + mt.la])
        /\ DigitRun(s, mt.i + mt.la + 1, mt.lb)
        /\ mt.i + mt.la + mt.lb + 1 <= Len(s)
        /\ IsSep(s[mt.i + mt.la + mt.lb + 1])
        /\ DigitRun(s, mt.i + mt.la + mt.lb + 2, mt.lc)}

\* the regular expression's choice: leftmost, then longest group by group
DmyRank(mt) == ((mt.i * 2 + (2 - mt.la)) * 2 + (2 - mt.lb)) * 3 + (4 - mt.lc)

DmyMatch(s) ==
    LET ms == DmyMatches(s)
        mt == CHOOSE x \in ms : \A y \in ms : DmyRank(x) <= DmyRank(y)
    IN  [a |-> DigitsVal(SubSeq(s, mt.i, mt.i + mt.la - 1)),
         b |-> DigitsVal(SubSeq(s, mt.i + mt.la + 1, mt.i + mt.la + mt.lb)),
         c |-> DigitsVal(SubSeq(s, mt.i + mt.la + mt.lb + 2,
                                 mt.i + mt.la + mt.lb + mt.lc + 1))]

\* the inner tryParse(dayFirst) of toISO
tryParse(s, dayFirst, impl) ==
    LET m == NewDate(s, impl)
    IN  IF m.fin THEN ISODate(m.v)
        ELSE IF DmyMatches(s) # {}
        THEN LET mm   == DmyMatch(s)
                 dd   == IF dayFirst THEN mm.a ELSE mm.b
                 mon  == IF dayFirst THEN mm.b ELSE mm.a
                 yyyy == IF mm.c < 100 THEN 2000 + mm.c ELSE mm.c
             IN  \* Date.UTC of finite arguments in this range is never NaN
                 ISODate(DateUTC(yyyy, mon - 1, dd))
        ELSE Null

toISO(s, impl) ==
    LET first == tryParse(s, FALSE, impl)
    IN  IF ~Falsy(first) THEN first ELSE tryParse(s, TRUE, impl)

(***************************************************************************)
(* parseNumber                                                             *)
(***************************************************************************)
RECURSIVE TrimLeft(_)
TrimLeft(s) ==
    IF s # <<>> /\ IsSpace(s[1]) THEN TrimLeft(Tail(s)) ELSE s

RECURSIVE TrimRight(_)
TrimRight(s) ==
    IF s # <<>> /\ IsSpace(s[Len(s)])
    THEN TrimRight(SubSeq(s, 1, Len(s) - 1)) ELSE s

\* s.trim()
Trim(s) == TrimRight(TrimLeft(s))

NotComma(c) == c # 44

\* s.replace(/,/g, '')
StripCommas(s) == SelectSeq(s, NotComma)

RECURSIVE DigitCount(_, _)
\* the number of consecutive digits of s from position i on
DigitCount(s, i) ==
    IF i <= Len(s) /\ IsDigit(s[i]) THEN 1 + DigitCount(s, i + 1) ELSE 0

\* parseFloat(s): the longest prefix [+-]digits[.digits] after leading white
\* space, in thousandths (digits past the third decimal are dropped; the
\* inputs used carry at most three); NaN when the prefix holds no digit.
\* Exponents and "Infinity" are not in the inputs used.
ParseFloat(s0) ==
    LET s      == TrimLeft(s0)
        signed == s # <<>> /\ s[1] \in {43, 45}
        neg    == s # <<>> /\ s[1] = 45
        start  == IF signed THEN 2 ELSE 1
        ni     == DigitCount(s, start)
        dot    == start + ni
        hasDot == dot <= Len(s) /\ s[dot] = 46
        nf     == IF hasDot THEN DigitCount(s, dot + 1) ELSE 0
        kept   == IF nf > 3 THEN 3 ELSE nf
        whole  == DigitsVal(SubSeq(s, start, start + ni - 1))
        frac   == DigitsVal(SubSeq(s, dot + 1, dot + kept))
        scale  == IF kept = 0 THEN 1000 ELSE IF kept = 1 THEN 100
                  ELSE IF kept = 2 THEN 10 ELSE 1
        mag    == whole * 1000 + frac * scale
    IN  IF ni + nf = 0 THEN NaN ELSE Num(IF neg THEN 0 - mag ELSE mag)

parseNumber(x) ==
    IF x = Null THEN NaN
    ELSE LET n == ParseFloat(Trim(StripCommas(x)))
         IN  IF n.fin THEN n ELSE NaN

(***************************************************************************)
(* cleanStr and fingerprint                                                *)
(***************************************************************************)
RECURSIVE CollapseSpaces(_)
\* s.replace(/\s+/g, ' ')
CollapseSpaces(s) ==
    IF s = <<>> THEN <<>>
    ELSE IF IsSpace(s[1])
    THEN <<32>> \o CollapseSpaces(TrimLeft(s))
    ELSE <<s[1]>> \o CollapseSpaces(Tail(s))

\* toUpperCase on the Latin letters a-z; the other characters used here
\* (digits, punctuation, white space, A-Z) are their own upper case
UpperChar(c) == IF c \in 97..122 THEN c - 32 ELSE c

toUpperCase(s) == [i \in 1..Len(s) |-> UpperChar(s[i])]

cleanStrNoTrim(s) ==
    toUpperCase(CollapseSpaces(IF Falsy(s) THEN <<>> ELSE s))

cleanStr(s) ==
    toUpperCase(Trim(CollapseSpaces(IF Falsy(s) THEN <<>> ELSE s)))

\* a 32-bit two's complement value from its 16-bit halves
Int32Of(hi, lo) ==
    IF hi >= 32768 THEN (hi - 65536) * 65536 + lo ELSE hi * 65536 + lo

Hi16(h) == (h \div 65536) % 65536

Lo16(h) == h % 65536

Shl4(h) ==
    LET lo == Lo16(h) * 16
        hi == Hi16(h) * 16 + lo \div 65536
    IN  Int32Of(hi % 65536, lo % 65536)

\* h << 5
Shl5(h) ==
    LET lo == Lo16(h) * 32
        hi == Hi16(h) * 32 + lo \div 65536
    IN  Int32Of(hi % 65536, lo % 65536)

\* (s - h + c) | 0: the exact difference and sum of the number type, then
\* the truncation to 32 bits, computed on 16-bit halves
SubAddOrZero(s, h, c) ==
    LET lo == Lo16(s) - Lo16(h) + c
        hi == Hi16(s) - Hi16(h) + lo \div 65536
    IN  Int32Of(hi % 65536, lo % 65536)

RECURSIVE HashFrom(_, _, _)
\* the loop of fingerprint from position i with accumulator h
HashFrom(base, i, h) ==
    IF i > Len(base) THEN h
    ELSE LET next == SubAddOrZero(Shl5(h), h, base[i])
         IN  \* the test has TLC compute next before the following step
             IF next \in Int THEN HashFrom(base, i + 1, next) ELSE 0

Abs(n) == IF n < 0 THEN 0 - n ELSE n

\* Math.round(x / 10) for x >= 0 thousandths: to the nearest cent, half up
RoundCents(x) == (x + 5) \div 10

\* dateISO.slice(0,10)
Slice10(s) == SubSeq(s, 1, IF Len(s) < 10 THEN Len(s) ELSE 10)

fingerprintSigned(dateISO, amount, merchant, description) ==
    LET cents == IF amount < 0 THEN 0 - RoundCents(Abs(amount))
                 ELSE RoundCents(amount)
        base  == Slice10(dateISO) \o <<124>> \o IntToStr(cents) \o <<124>>
                 \o cleanStr(merchant) \o <<124>> \o cleanStr(description)
    IN  IntToStr(HashFrom(base, 1, 0))

fingerprint(dateISO, amount, merchant, description) ==
    LET cents == RoundCents(Abs(amount))
        base  == Slice10(dateISO) \o <<124>> \o IntToStr(cents) \o <<124>>
                 \o cleanStr(merchant) \o <<124>> \o cleanStr(description)
    IN  IntToStr(HashFrom(base, 1, 0))

(***************************************************************************)
(* The column mapping and the amount of a row (commitImport)               *)
(*                                                                         *)
(* A mapping names, for each role, a column of the sheet or "" (unset).    *)
(* A row is a record of cells, one per column, each a string.              *)
(***************************************************************************)
Max0(n) == IF n > 0 THEN n ELSE 0

validateMappingDebitOnly(m) ==
    IF m.date = "" THEN "Please map the Date column."
    ELSE IF m.amount = "" /\ m.debit = ""
    THEN "Please map Amount or Debit and Credit columns."
    ELSE IF m.desc = "" THEN "Please map the Description column."
    ELSE "null"

validateMapping(m) ==
    IF m.date = "" THEN "Please map the Date column."
    ELSE IF m.amount = "" /\ ~(m.debit # "" /\ m.credit # "")
    THEN "Please map Amount or Debit and Credit columns."
    ELSE IF m.desc = "" THEN "Please map the Description column."
    ELSE "null"

\* the amount commitImport gives a row, in thousandths
ResolveAmountFlagIgnored(r, m, ls) ==
    IF m.debit # "" /\ m.credit # ""
    THEN LET debit  == parseNumber(r[m.debit])
             credit == parseNumber(r[m.credit])
         IN  Max0((IF debit.fin THEN Max0(debit.v) ELSE 0)
                  - (IF credit.fin THEN Max0(credit.v) ELSE 0))
    ELSE IF m.amount # ""
    THEN LET a == parseNumber(r[m.amount])
         IN  IF a.fin THEN Max0(a.v) ELSE 0
    ELSE 0

ResolveAmountUnfloored(r, m, ls) ==
    IF m.debit # "" /\ m.credit # ""
    THEN LET debit  == parseNumber(r[m.debit])
             credit == parseNumber(r[m.credit])
         IN  (IF debit.fin THEN Max0(debit.v) ELSE 0)
             - (IF credit.fin THEN Max0(credit.v) ELSE 0)
    ELSE IF m.amount # ""
    THEN LET a == parseNumber(r[m.amount])
         IN  IF a.fin
             THEN (IF ls = "1" THEN Max0(0 - a.v) ELSE Max0(a.v))
             ELSE 0
    ELSE 0

ResolveAmount(r, m, ls) ==
    IF m.debit # "" /\ m.credit # ""
    THEN LET debit  == parseNumber(r[m.debit])
             credit == parseNumber(r[m.credit])
         IN  Max0((IF debit.fin THEN Max0(debit.v) ELSE 0)
                  - (IF credit.fin THEN Max0(credit.v) ELSE 0))
    ELSE IF m.amount # ""
    THEN LET a == parseNumber(r[m.amount])
         IN  IF a.fin
             THEN (IF ls = "1" THEN Max0(0 - a.v) ELSE Max0(a.v))
             ELSE 0
    ELSE 0

\* the test `!(amount > 0)` that skips a row, negated
IsSpendOrZero(amount) == amount >= 0

IsSpend(amount) == amount > 0

(***************************************************************************)
(* The transactions table and addTransaction                               *)
(*                                                                         *)
(* A transaction is a record of household_id, date, merchant, description, *)
(* amount, category, source and external_id; a stored one also has its id. *)
(* person, tags and notes are constant in what follows and left out.       *)
(***************************************************************************)
\* the table's uniqueness constraint on (household_id, external_id)
UniqueViolation(rows, t) ==
    /\ t.external_id # Null
    /\ \E s \in rows :
        s.household_id = t.household_id /\ s.external_id = t.external_id

WithId(t, id) == [id |-> id] @@ t

\* what addTransaction makes of the table's answer: "none" (the row is
\* stored), "23505" (unique violation) or "other" (any other error)
addTransactionThrowsOnDuplicate(dbError) ==
    IF dbError # "none" THEN "throw" ELSE "saved"

addTransaction(dbError) ==
    IF dbError = "23505" THEN "null"
    ELSE IF dbError # "none" THEN "throw"
    ELSE "saved"

RECURSIVE StrLeq(_, _)
\* a.localeCompare(b) <= 0 for strings of digits and hyphens
StrLeq(a, b) ==
    IF a = <<>> THEN TRUE
    ELSE IF b = <<>> THEN FALSE
    ELSE IF a[1] # b[1] THEN a[1] < b[1]
    ELSE StrLeq(Tail(a), Tail(b))

\* setTxns(prev => [...prev, saved].sort(by date)): the sort is stable and
\* prev is in date order
InsertByDate(prev, saved) ==
    LET k == Cardinality({i \in 1..Len(prev) : StrLeq(prev[i].date, saved.date)})
    IN  SubSeq(prev, 1, k) \o <<saved>> \o SubSeq(prev, k + 1, Len(prev))

RECURSIVE OrderByDate(_)
\* listTransactions: the household's rows in date order (equal dates by id)
OrderByDate(rows) ==
    IF rows = {} THEN <<>>
    ELSE LET first == CHOOSE x \in rows : \A y \in rows :
                          \/ x.date # y.date /\ StrLeq(x.date, y.date)
                          \/ x.date = y.date /\ x.id <= y.id
         IN  <<first>> \o OrderByDate(rows \ {first})

listTransactions(hid) == OrderByDate({t \in store : t.household_id = hid})

(***************************************************************************)
(* Learn rules                                                             *)
(***************************************************************************)
normKey(s) ==
    Trim(CollapseSpaces(toUpperCase(IF Falsy(s) THEN <<>> ELSE s)))

\* suggestCategory; "" stands for null
suggestCategory(merchant, description, rules) ==
    LET km == normKey(merchant)
        kd == normKey(description)
    IN  IF km # <<>> /\ km \in DOMAIN rules /\ rules[km] # "" THEN rules[km]
        ELSE IF kd # <<>> /\ kd \in DOMAIN rules /\ rules[kd] # ""
        THEN rules[kd]
        ELSE ""

AddCategorySuggestionFirst(formCat, suggested) ==
    IF suggested # "" THEN suggested
    ELSE IF formCat # "" THEN formCat ELSE "Uncategorized"

\* the category onAdd stores: form.category || 'Uncategorized', replaced by
\* the suggestion only when the form has no category
AddCategory(formCat, suggested) ==
    IF suggested # "" /\ formCat = "" THEN suggested
    ELSE IF formCat # "" THEN formCat ELSE "Uncategorized"

(***************************************************************************)
(* commitImport, row by row                                                *)
(***************************************************************************)
MerchantTokens == 6

RECURSIVE NthSpace(_, _, _)
\* the position of the n-th space of s at or after position i, 0 if none
NthSpace(s, i, n) ==
    IF i > Len(s) THEN 0
    ELSE IF s[i] = 32
    THEN (IF n = 1 THEN i ELSE NthSpace(s, i + 1, n - 1))
    ELSE NthSpace(s, i + 1, n)

\* desc.split(' ').slice(0, 6).join(' ')
MerchantGuess(desc) ==
    LET cut == NthSpace(desc, 1, MerchantTokens)
    IN  IF cut = 0 THEN desc ELSE SubSeq(desc, 1, cut - 1)

ImportTxnNoExternalId(hid, dateISO, merchant, desc, amount) ==
    [household_id |-> hid, date |-> dateISO, merchant |-> merchant,
     description |-> desc, amount |-> amount, category |-> "Uncategorized",
     source |-> "import", external_id |-> Null]

ImportTxnRawFingerprint(hid, dateISO, merchant, desc, amount) ==
    [household_id |-> hid, date |-> dateISO, merchant |-> merchant,
     description |-> desc, amount |-> amount, category |-> "Uncategorized",
     source |-> "import",
     external_id |-> fingerprint(dateISO, amount, <<>>, desc)]

ImportTxn(hid, dateISO, merchant, desc, amount) ==
    [household_id |-> hid, date |-> dateISO, merchant |-> merchant,
     description |-> desc, amount |-> amount, category |-> "Uncategorized",
     source |-> "import",
     external_id |-> fingerprint(dateISO, amount, merchant, desc)]

\* the loop body from the amount test on: the row is skipped for its amount
\* or has a transaction to insert
ProcessAmount(hid, dateISO, desc, amount) ==
    IF ~IsSpend(amount)
    THEN [outcome |-> "skipAmount", txn |-> <<>>]
    ELSE [outcome |-> "insert",
          txn |-> <<ImportTxn(hid, dateISO, MerchantGuess(desc), desc, amount)>>]

\* the loop body from the date test on: the row is skipped for its date or
\* goes on to its description and amount
ProcessDate(r, m, hid, ls, dateISO) ==
    IF Falsy(dateISO)
    THEN [outcome |-> "skipDate", txn |-> <<>>]
    ELSE ProcessAmount(hid, dateISO, Trim(r[m.desc]), ResolveAmount(r, m, ls))

\* one pass of the loop body up to the insert
ProcessRow(r, m, hid, ls, impl) ==
    ProcessDate(r, m, hid, ls, toISO(r[m.date], impl))

\* what the loop does with addTransaction's answer: the counters' increments
AfterInsertDuplicateUncounted(result) ==
    IF result = "saved" THEN [added |-> 1, skipped |-> 0, log |-> "added"]
    ELSE IF result = "null"
    THEN [added |-> 0, skipped |-> 0, log |-> "duplicate"]
    ELSE [added |-> 0, skipped |-> 1, log |-> "failed"]

AfterInsertThrowUncounted(result) ==
    IF result = "saved" THEN [added |-> 1, skipped |-> 0, log |-> "added"]
    ELSE IF result = "null"
    THEN [added |-> 0, skipped |-> 1, log |-> "duplicate"]
    ELSE [added |-> 0, skipped |-> 0, log |-> "failed"]

AfterInsert(result) ==
    IF result = "saved" THEN [added |-> 1, skipped |-> 0, log |-> "added"]
    ELSE IF result = "null"
    THEN [added |-> 0, skipped |-> 1, log |-> "duplicate"]
    ELSE [added |-> 0, skipped |-> 1, log |-> "failed"]

(***************************************************************************)
(* Bounds and input pools of specification Spec                            *)
(***************************************************************************)
MaxRows == 2

MaxImports == 2

MaxInsertFailures == 1

MaxManual == 1

MaxSwitches == 1

Households == {"h1", "h2"}

sShellFuel == <<83, 104, 101, 108, 108, 32, 102, 117, 101, 108>>

sShellFuelLoose == <<32, 115, 104, 101, 108, 108, 32, 32, 70, 85, 69, 76>>

sRefund == <<82, 101, 102, 117, 110, 100>>

sShell == <<83, 104, 101, 108, 108>>

sIsoJan31 == <<50, 48, 50, 52, 45, 48, 49, 45, 51, 49>>

sIsoFeb01 == <<50, 48, 50, 52, 45, 48, 50, 45, 48, 49>>

rowShell ==
    [Date |-> sIsoJan31, Desc |-> sShellFuel,
     Amount |-> <<45, 52, 53, 46, 48, 48>>, Debit |-> <<52, 53, 46, 48, 48>>,
     Credit |-> <<>>]

rowBadDate ==
    [Date |-> <<110, 111, 116, 45, 97, 45, 100, 97, 116, 101>>,
     Desc |-> sRefund, Amount |-> <<45, 52, 53, 46, 48, 48>>,
     Debit |-> <<52, 53, 46, 48, 48>>, Credit |-> <<>>]

rowShellAgain ==
    [Date |-> sIsoJan31, Desc |-> sShellFuelLoose,
     Amount |-> <<45, 52, 53, 46, 48, 48>>, Debit |-> <<52, 53, 46, 48, 48>>,
     Credit |-> <<48>>]

SheetRows == <<rowBadDate, rowShell, rowShellAgain>>

\* the sheets uploaded: MaxRows consecutive rows of SheetRows
Sheets ==
    {SubSeq(SheetRows, i, i + MaxRows - 1) :
        i \in 1..(Len(SheetRows) - MaxRows + 1)}

NoMapping == [date |-> "", desc |-> "", amount |-> "", debit |-> "", credit |-> ""]

Mappings ==
    {[NoMapping EXCEPT !.date = "Date", !.desc = "Desc", !.amount = "Amount"],
     [NoMapping EXCEPT !.date = "Date", !.desc = "Desc", !.debit = "Debit",
                       !.credit = "Credit"],
     [NoMapping EXCEPT !.desc = "Desc", !.amount = "Amount"],
     [NoMapping EXCEPT !.date = "Date", !.amount = "Amount"],
     [NoMapping EXCEPT !.date = "Date", !.desc = "Desc", !.debit = "Debit"]}

NoAlert == [msg |-> "", added |-> 0, skipped |-> 0]

Alert(msg) == [msg |-> msg, added |-> 0, skipped |-> 0]

ValidationMessages ==
    {"Please map the Date column.",
     "Please map Amount or Debit and Credit columns.",
     "Please map the Description column."}

NoClosure == [rows |-> <<>>, mapping |-> NoMapping, hid |-> ""]

NoInsert == [dbError |-> "", result |-> "", stored |-> FALSE, source |-> ""]

\* the rules a previous session left in localStorage
NoRun ==
    [rows |-> <<>>, mapping |-> NoMapping, hid |-> "", ls |-> "", added |-> 0,
     skipped |-> 0, failed |-> 0, stored |-> {}]

\* the rules a browser holds from earlier sessions, under normalized keys
StoredRules ==
    [h \in Households |->
        IF h = "h1" THEN (normKey(sShell) :> "Fuel") ELSE <<>>]

\* the categories table as an earlier session left it
Category(id, hid, name) == [id |-> id, household_id |-> hid, name |-> name]

StoredCats ==
    {Category("c1", "h1", "Fuel"), Category("c2", "h1", "Groceries"),
     Category("c3", "h2", "Fuel")}

Budget(hid, category, amount) ==
    [household_id |-> hid, category |-> category, amount |-> amount]

\* no renameCategoryAndMigrate has been called yet
NoRename ==
    [pc |-> "idle", n |-> 0, hid |-> "", id |-> "", oldName |-> "",
     newName |-> "", amount |-> 0, failed |-> {}, had |-> {},
     hadBudget |-> {}, edits0 |-> 0, quiet |-> TRUE]

\* no deleteCategoryIfUnused has been called yet
NoDelete ==
    [pc |-> "idle", n |-> 0, hid |-> "", id |-> "", name |-> "",
     error |-> "", failed |-> {}, usedAtDelete |-> FALSE, used |-> FALSE,
     cats0 |-> {}, store0 |-> {}, budgets0 |-> {}, edits0 |-> 0,
     quiet |-> TRUE, renames0 |-> 0]

FormMerchants == {sShell}

FormAmounts == {Num(12500)}

\* ProcessRow of every row of SheetRows under every mapping that passes
\* validateMapping, worked out once
ProcessedRows ==
    [r \in {SheetRows[i] : i \in 1..Len(SheetRows)},
     m \in {m \in Mappings : validateMapping(m) = "null"},
     hid \in Households, ls \in {"0", "1"}, impl \in DateImpls |->
        ProcessRow(r, m, hid, ls, impl)]

RECURSIVE RunLoop(_, _, _, _)
LoopStepAhead(c, i, nSkipped, log, p) ==
    IF p.outcome = "insert"
    THEN [idx |-> i + 1, skipped |-> nSkipped, log |-> log,
          inflight |-> p.txn, finished |-> FALSE]
    ELSE RunLoop(c, i + 1, nSkipped + 1, Append(log, p.outcome))

\* the loop at row i + 1 once the row's ProcessRow p is known
LoopStep(c, i, nSkipped, log, p) ==
    IF p.outcome = "insert"
    THEN [idx |-> i, skipped |-> nSkipped, log |-> log, inflight |-> p.txn,
          finished |-> FALSE]
    ELSE RunLoop(c, i + 1, nSkipped + 1, Append(log, p.outcome))

\* the loop from row i + 1 on, as far as it runs without waiting: over the
\* rows it skips, to the first insert or to the end of the rows
RunLoop(c, i, nSkipped, log) ==
    IF i = Len(c.rows)
    THEN [idx |-> i, skipped |-> nSkipped, log |-> log, inflight |-> <<>>,
          finished |-> TRUE]
    ELSE LoopStep(c, i, nSkipped, log,
                  ProcessedRows[c.rows[i + 1], c.mapping, c.hid, lsNegSpend,
                                dateImpl])

fnVars == <<fnPc, fnIn, fnOut>>

learnVars == <<formChosen, edits, nEdits>>

catVars == <<cats, budgets, ren, del>>

hhVars == <<lsActive, dbHouseholds, households, delHH>>

extVars == <<learnVars, catVars, hhVars>>

histVars ==
    <<rowLog, lastInsert, runFlag, prevRun, nImports, nFailures, nManual,
      nSwitches>>

dbVars == <<store, nextId>>

uiVars ==
    <<householdId, negativesAreSpend, lsNegSpend, lsRules, learnRules,
      formCategory, txns, listInFlight, showPreview, previewRows, mapping>>

importVars == <<importBusy, importPc, imp, idx, added, skipped, inflight>>

vars ==
    <<dateImpl, dbVars, uiVars, importVars, alerted, histVars, fnVars,
      extVars>>

\* the application after its bootstrap: a household is active, the table
\* holds rows and the list of the household is loaded or still being fetched
StartInit(hid, neg, rows, loaded) ==
    /\ store = rows
    /\ nextId = Cardinality(rows) + 1
    /\ householdId = hid
    /\ negativesAreSpend = neg
    /\ lsNegSpend = (IF neg THEN "1" ELSE "0")
    /\ lsRules = StoredRules
    /\ learnRules = StoredRules[hid]
    /\ formCategory = "Uncategorized"
    /\ txns = (IF loaded THEN OrderByDate({t \in rows : t.household_id = hid})
               ELSE <<>>)
    /\ listInFlight = (IF loaded THEN {} ELSE {hid})
    /\ showPreview = FALSE
    /\ previewRows = <<>>
    /\ mapping = NoMapping
    /\ importBusy = FALSE
    /\ importPc = "idle"
    /\ imp = NoClosure
    /\ idx = 0
    /\ added = 0
    /\ skipped = 0
    /\ inflight = <<>>
    /\ alerted = NoAlert
    /\ rowLog = <<>>
    /\ lastInsert = NoInsert
    /\ runFlag = ""
    /\ prevRun = NoRun
    /\ nImports = 0
    /\ nFailures = 0
    /\ nManual = 0
    /\ nSwitches = 0

BootInit(hid, neg, rows) == StartInit(hid, neg, rows, TRUE)

\* nothing is stored yet
MainInit(hid, neg) == BootInit(hid, neg, {})

\* no onDeleteHousehold call
NoHouseholdDelete == [pc |-> "idle", hid |-> ""]

\* after the bootstrap: the user's households are listed and the active one
\* is the one localStorage names
HouseholdInit ==
    /\ lsActive = "h1"
    /\ dbHouseholds = <<"h1", "h2">>
    /\ households = <<"h1", "h2">>
    /\ delHH = NoHouseholdDelete

\* no correction, rename or delete is under way; the form shows its default
ExtInit ==
    /\ formChosen = FALSE
    /\ edits = {}
    /\ nEdits = 0
    /\ cats = StoredCats
    /\ budgets = {}
    /\ ren = NoRename
    /\ del = NoDelete
    /\ HouseholdInit

\* the rows of Sheets carry ISO dates or a date every host refuses, so the
\* host's Date.parse makes no difference here
Init ==
    /\ dateImpl = "mdyLocalWest"
    /\ \E neg \in BOOLEAN : MainInit("h1", neg)
    /\ ExtInit
    /\ fnPc = "ready"
    /\ fnIn = <<>>
    /\ fnOut = <<>>

(***************************************************************************)
(* The handlers.  alert() stops the page until the box is dismissed, so    *)
(* every handler waits for alerted = NoAlert.                              *)
(***************************************************************************)
\* the box is dismissed, commitImport without its finally block
dismissAlertBusyKept ==
    /\ alerted # NoAlert
    /\ alerted' = NoAlert
    /\ IF importPc = "alert"
       THEN /\ showPreview' = FALSE
            /\ importPc' = "done"
            /\ UNCHANGED importBusy
       ELSE UNCHANGED <<showPreview, importBusy, importPc>>
    /\ UNCHANGED <<dateImpl, dbVars, householdId, negativesAreSpend,
                   lsNegSpend, lsRules, learnRules, formCategory, txns,
                   listInFlight, previewRows, mapping, imp, idx, added,
                   skipped, inflight, histVars, fnVars,
                   extVars>>

\* the box is dismissed; after commitImport's closing alert the handler runs
\* on: setShowPreview(false), then setImportBusy(false)
dismissAlert ==
    /\ alerted # NoAlert
    /\ alerted' = NoAlert
    /\ IF importPc = "alert"
       THEN /\ showPreview' = FALSE
            /\ importBusy' = FALSE
            /\ importPc' = "done"
       ELSE UNCHANGED <<showPreview, importBusy, importPc>>
    /\ UNCHANGED <<dateImpl, dbVars, householdId, negativesAreSpend,
                   lsNegSpend, lsRules, learnRules, formCategory, txns,
                   listInFlight, previewRows, mapping, imp, idx, added,
                   skipped, inflight, histVars, fnVars,
                   extVars>>

\* the preview covers the page (a fixed overlay): while it is open the
\* page's own controls are out of reach
PageInReach == alerted = NoAlert /\ ~showPreview

\* onImport and openPreview: a sheet is parsed and shown with a mapping (the
\* guessed one as the user left it)
openPreview ==
    /\ PageInReach
    /\ \E f \in Sheets : \E m \in Mappings :
        /\ previewRows' = f
        /\ mapping' = m
    /\ showPreview' = TRUE
    /\ UNCHANGED <<dateImpl, dbVars, householdId, negativesAreSpend,
                   lsNegSpend, lsRules, learnRules, formCategory, txns,
                   listInFlight, importVars, alerted, histVars, fnVars,
                   extVars>>

ImportRows(rows) == {t \in rows : t.source = "import"}

CountOf(log, what) == Cardinality({i \in 1..Len(log) : log[i] = what})

\* the import that has just completed, as the next one will remember it
RunSummary ==
    [rows |-> imp.rows, mapping |-> imp.mapping, hid |-> imp.hid,
     ls |-> runFlag, added |-> added, skipped |-> skipped,
     failed |-> CountOf(rowLog, "failed"), stored |-> ImportRows(store)]

\* the loop ran out of rows: commitImport stops at its closing alert
Finish(nAdded, nSkipped) ==
    /\ alerted' = [msg |-> "Import complete", added |-> nAdded,
                   skipped |-> nSkipped]
    /\ importBusy' = TRUE
    /\ importPc' = "alert"
    /\ UNCHANGED showPreview

\* commitImport from the click to its first await (or to its end, when no
\* row needs an insert); the Import button is disabled while importBusy
commitImport ==
    /\ alerted = NoAlert
    /\ showPreview
    /\ ~importBusy
    /\ nImports < MaxImports
    /\ IF validateMapping(mapping) # "null"
       THEN /\ alerted' = Alert(validateMapping(mapping))
            /\ UNCHANGED <<showPreview, importVars, histVars>>
       ELSE LET c == [rows |-> previewRows, mapping |-> mapping,
                      hid |-> householdId]
            IN  \E r \in {RunLoop(c, 0, 0, <<>>)} :
                /\ imp' = c
                /\ idx' = r.idx
                /\ added' = 0
                /\ skipped' = r.skipped
                /\ inflight' = r.inflight
                /\ rowLog' = r.log
                /\ runFlag' = lsNegSpend
                /\ prevRun' = (IF importPc = "done" /\ imp = c
                                  /\ runFlag = lsNegSpend
                               THEN RunSummary ELSE NoRun)
                /\ nImports' = nImports + 1
                /\ IF r.finished
                   THEN Finish(0, r.skipped)
                   ELSE /\ importBusy' = TRUE
                        /\ importPc' = "await"
                        /\ UNCHANGED <<alerted, showPreview>>
                /\ UNCHANGED <<lastInsert, nFailures, nManual, nSwitches>>
    /\ UNCHANGED <<dateImpl, dbVars, householdId, negativesAreSpend,
                   lsNegSpend, lsRules, learnRules, formCategory, txns,
                   listInFlight, previewRows, mapping, fnVars,
                   extVars>>

\* the answers the table can give to the insert of t
DbAnswers(t) ==
    (IF UniqueViolation(store, t) THEN {"23505"} ELSE {"none"})
    \cup (IF nFailures < MaxInsertFailures THEN {"other"} ELSE {})

\* the awaited addTransaction returns and commitImport runs on to its next
\* await or to its end
insertReturn ==
    /\ alerted = NoAlert
    /\ importPc = "await"
    /\ \E dbError \in DbAnswers(inflight[1]) :
        LET result == addTransaction(dbError)
            saved  == WithId(inflight[1], nextId)
            rows   == IF dbError = "none" THEN store \cup {saved} ELSE store
            step   == AfterInsert(result)
        IN  \E r \in {RunLoop(imp, idx + 1, skipped + step.skipped,
                              Append(rowLog, step.log))} :
            /\ store' = rows
            /\ nextId' = (IF dbError = "none" THEN nextId + 1 ELSE nextId)
            /\ txns' = (IF result = "saved" THEN InsertByDate(txns, saved)
                        ELSE txns)
            /\ added' = added + step.added
            /\ skipped' = r.skipped
            /\ idx' = r.idx
            /\ inflight' = r.inflight
            /\ rowLog' = r.log
            /\ lastInsert' = [dbError |-> dbError, result |-> result,
                              stored |-> rows # store, source |-> "import"]
            /\ nFailures' = (IF dbError = "other" THEN nFailures + 1
                             ELSE nFailures)
            /\ IF r.finished
               THEN Finish(added + step.added, r.skipped)
               ELSE UNCHANGED <<alerted, showPreview, importBusy, importPc>>
    /\ UNCHANGED <<dateImpl, householdId, negativesAreSpend, lsNegSpend,
                   lsRules, learnRules, formCategory, listInFlight,
                   previewRows, mapping, imp, runFlag, prevRun, nImports,
                   nManual, nSwitches, fnVars,
                   extVars>>

\* onAdd with the form as the user filled it; the insert and what follows
\* it are taken as one step
onAdd ==
    /\ PageInReach
    /\ nManual < MaxManual
    /\ \E merchant \in FormMerchants : \E amount \in FormAmounts :
       \E dbError \in {"none"} \cup (IF nFailures < MaxInsertFailures
                                     THEN {"other"} ELSE {}) :
        LET suggested == suggestCategory(merchant, <<>>, learnRules)
            category  == AddCategory(formCategory, suggested)
            t == [household_id |-> householdId, date |-> sIsoFeb01,
                  merchant |-> merchant, description |-> <<>>,
                  amount |-> amount.v, category |-> category,
                  source |-> "manual", external_id |-> Null]
            saved == WithId(t, nextId)
        IN  IF ~amount.fin
            THEN /\ dbError = "none"
                 /\ alerted' = Alert("Please enter a date and amount.")
                 /\ UNCHANGED <<dbVars, txns, formCategory, lastInsert,
                                nFailures>>
            ELSE /\ store' = (IF dbError = "none" THEN store \cup {saved}
                              ELSE store)
                 /\ nextId' = (IF dbError = "none" THEN nextId + 1
                               ELSE nextId)
                 /\ txns' = (IF addTransaction(dbError) = "saved"
                             THEN InsertByDate(txns, saved) ELSE txns)
                 /\ formCategory' = (IF addTransaction(dbError) = "throw"
                                     THEN formCategory
                                     ELSE IF formCategory # ""
                                     THEN formCategory ELSE "Uncategorized")
                 /\ alerted' = (IF addTransaction(dbError) = "throw"
                                THEN Alert("Failed to add transaction")
                                ELSE alerted)
                 /\ lastInsert' = [dbError |-> dbError,
                                   result |-> addTransaction(dbError),
                                   stored |-> dbError = "none",
                                   source |-> "manual"]
                 /\ nFailures' = (IF dbError = "other" THEN nFailures + 1
                                  ELSE nFailures)
    /\ nManual' = nManual + 1
    /\ UNCHANGED <<dateImpl, householdId, negativesAreSpend, lsNegSpend,
                   lsRules, learnRules, listInFlight, showPreview,
                   previewRows, mapping, importVars, rowLog, runFlag,
                   prevRun, nImports, nSwitches, fnVars,
                   extVars>>

\* onSelectHousehold and the effects that follow the change of householdId:
\* the list query is sent and the learn rules are read again
onSelectHousehold ==
    /\ PageInReach
    /\ nSwitches < MaxSwitches
    /\ \E id \in {households[i] : i \in 1..Len(households)} \ {householdId} :
        /\ lsActive' = id
        /\ householdId' = id
        /\ listInFlight' = listInFlight \cup {id}
        /\ learnRules' = lsRules[id]
    /\ nSwitches' = nSwitches + 1
    /\ UNCHANGED <<dateImpl, dbVars, negativesAreSpend, lsNegSpend, lsRules,
                   formCategory, txns, showPreview, previewRows, mapping,
                   importVars, alerted, rowLog, lastInsert, runFlag, prevRun,
                   nImports, nFailures, nManual, fnVars,
                   learnVars, catVars, dbHouseholds, households, delHH>>

\* a list query returns and replaces the list in memory
listReturn ==
    /\ alerted = NoAlert
    /\ \E hid \in listInFlight :
        /\ txns' = listTransactions(hid)
        /\ listInFlight' = listInFlight \ {hid}
    /\ UNCHANGED <<dateImpl, dbVars, householdId, negativesAreSpend,
                   lsNegSpend, lsRules, learnRules, formCategory,
                   showPreview, previewRows, mapping, importVars, alerted,
                   histVars, fnVars,
                   extVars>>

\* the sign-convention checkbox is clicked
toggleNegatives ==
    /\ PageInReach
    /\ negativesAreSpend' = ~negativesAreSpend
    /\ lsNegSpend' = (IF negativesAreSpend THEN "0" ELSE "1")
    /\ UNCHANGED <<dateImpl, dbVars, householdId, lsRules, learnRules,
                   formCategory, txns, listInFlight, showPreview,
                   previewRows, mapping, importVars, alerted, histVars,
                   fnVars,
                   extVars>>

Next ==
    \/ dismissAlert
    \/ openPreview
    \/ commitImport
    \/ insertReturn
    \/ onAdd
    \/ onSelectHousehold
    \/ listReturn
    \/ toggleNegatives

Spec == Init /\ [][Next]_vars

\* the application at rest, for the specifications of the pure functions
Parked == MainInit("h1", TRUE) /\ ExtInit

appVars == <<dbVars, uiVars, importVars, alerted, histVars, extVars>>

(***************************************************************************)
(* Specification SpecImportFair: previews and imports of one household,    *)
(* where every awaited insert answers and every alert box is dismissed     *)
(***************************************************************************)
NextImport ==
    \/ dismissAlert
    \/ openPreview
    \/ commitImport
    \/ insertReturn

SpecImportFair ==
    /\ Init
    /\ [][NextImport]_vars
    /\ WF_vars(insertReturn)
    /\ WF_vars(dismissAlert)

(***************************************************************************)
(* Specification SpecLearn: manual entries, category corrections and       *)
(* household switches                                                      *)
(***************************************************************************)
MaxEdits == 1

\* categoryNames, for the household on screen
categoryNames ==
    {"Uncategorized"} \cup
        {c.name : c \in {x \in cats : x.household_id = householdId}}

\* a manual entry of an earlier session, not yet categorized
EarlierTxn ==
    WithId([household_id |-> "h1", date |-> sIsoJan31, merchant |-> sShell,
            description |-> <<>>, amount |-> 12500,
            category |-> "Uncategorized", source |-> "manual",
            external_id |-> Null], 1)

\* a second one, of another merchant
EarlierRefund == [EarlierTxn EXCEPT !.id = 2, !.merchant = sRefund]

EarlierTxns == {EarlierTxn, EarlierRefund}

InitLearn ==
    /\ dateImpl = "mdyLocalWest"
    /\ BootInit("h1", TRUE, EarlierTxns)
    /\ ExtInit
    /\ fnPc = "ready"
    /\ fnIn = <<>>
    /\ fnOut = <<>>

\* the category select of the manual-entry form is changed
setFormCategory ==
    /\ PageInReach
    /\ \E cat \in categoryNames \ {formCategory} : formCategory' = cat
    /\ formChosen' = TRUE
    /\ UNCHANGED <<dateImpl, dbVars, householdId, negativesAreSpend,
                   lsNegSpend, lsRules, learnRules, txns, listInFlight,
                   showPreview, previewRows, mapping, importVars, alerted,
                   histVars, fnVars, edits, nEdits, catVars, hhVars>>

\* what onChangeCategory closes over when the inline select is changed
Edit(id, cat) ==
    [id |-> id, cat |-> cat, rules |-> learnRules, hid |-> householdId]

\* onChangeCategory up to its await: updateTransaction is sent
ChangeCategory(limit) ==
    /\ PageInReach
    /\ nEdits < limit
    /\ \E i \in 1..Len(txns) : \E cat \in categoryNames \ {txns[i].category} :
        edits' = edits \cup {Edit(txns[i].id, cat)}
    /\ nEdits' = nEdits + 1
    /\ UNCHANGED <<dateImpl, dbVars, uiVars, importVars, alerted, histVars,
                   fnVars, formChosen, catVars, hhVars>>

onChangeCategory == ChangeCategory(MaxEdits)

\* updateTransaction: the row with its category replaced
Recategorized(id, cat) ==
    LET row == CHOOSE t \in store : t.id = id
    IN  [row EXCEPT !.category = cat]

\* normKey(saved.merchant || saved.description)
RuleKey(saved) ==
    normKey(IF Falsy(saved.merchant) THEN saved.description
            ELSE saved.merchant)

\* the spread without the rules the handler closed over
UpdatedRulesKeyOnly(rules, key, cat) == key :> cat

\* { ...learnRules, [key]: cat } over the rules the handler closed over
UpdatedRules(rules, key, cat) == (key :> cat) @@ rules

ReplaceById(list, saved) ==
    [i \in 1..Len(list) |-> IF list[i].id = saved.id THEN saved ELSE list[i]]

\* updateTransaction answers and onChangeCategory runs on: the list and the
\* rules in memory are replaced and the rules are saved under the household
\* the handler closed over; a failure is shown in an alert
updateReturn ==
    /\ alerted = NoAlert
    /\ \E e \in edits : \E dbError \in {"none", "other"} :
        /\ edits' = edits \ {e}
        /\ IF dbError = "none"
           THEN \E saved \in {Recategorized(e.id, e.cat)} :
                \E updated \in {UpdatedRules(e.rules, RuleKey(saved), e.cat)} :
                    /\ store' = {IF t.id = e.id THEN saved ELSE t : t \in store}
                    /\ txns' = ReplaceById(txns, saved)
                    /\ learnRules' = updated
                    /\ lsRules' = [lsRules EXCEPT ![e.hid] = updated]
                    /\ UNCHANGED alerted
           ELSE /\ alerted' = Alert("Failed to update category")
                /\ UNCHANGED <<store, txns, learnRules, lsRules>>
    /\ UNCHANGED <<dateImpl, nextId, householdId, negativesAreSpend,
                   lsNegSpend, formCategory, listInFlight, showPreview,
                   previewRows, mapping, importVars, histVars, fnVars,
                   formChosen, nEdits, catVars, hhVars>>

NextLearn ==
    \/ dismissAlert
    \/ setFormCategory
    \/ onAdd
    \/ onChangeCategory
    \/ updateReturn
    \/ onSelectHousehold
    \/ listReturn

SpecLearn == InitLearn /\ [][NextLearn]_vars

(***************************************************************************)
(* Specification SpecOverlap: category corrections of one household that   *)
(* may be started while another one awaits its update                      *)
(***************************************************************************)
MaxOverlap == 3

\* the inline select of a row is changed, possibly while the update of
\* another row has not answered yet
onChangeCategoryOverlapped == ChangeCategory(MaxOverlap)

NextOverlap ==
    \/ dismissAlert
    \/ onChangeCategoryOverlapped
    \/ updateReturn

SpecOverlap == InitLearn /\ [][NextOverlap]_vars

(***************************************************************************)
(* Specification SpecCats: renameCategoryAndMigrate and                    *)
(* deleteCategoryIfUnused, statement by statement, next to category        *)
(* corrections.  A call of one starts when no call of the other is under   *)
(* way; category corrections run at any time.                              *)
(***************************************************************************)
MaxCategoryCalls == 1

\* the rows and budgets earlier sessions may have left
StoredTxn(id, hid, category) ==
    [EarlierTxn EXCEPT !.id = id, !.household_id = hid,
                       !.category = category]

StoredTxns ==
    <<StoredTxn(1, "h1", "Fuel"), StoredTxn(2, "h2", "Fuel"),
      StoredTxn(3, "h1", "Groceries")>>

StoredBudgets == {Budget("h1", "Fuel", 300), Budget("h2", "Fuel", 100)}

\* the name typed into the rename prompt
NewNames == {"Petrol"}

InitCats ==
    /\ dateImpl = "mdyLocalWest"
    /\ \E k \in 0..Len(StoredTxns) :
        BootInit("h1", TRUE, {StoredTxns[i] : i \in 1..k})
    /\ formChosen = FALSE
    /\ edits = {}
    /\ nEdits = 0
    /\ cats = StoredCats
    /\ budgets \in SUBSET StoredBudgets
    /\ ren = NoRename
    /\ del = NoDelete
    /\ HouseholdInit
    /\ fnPc = "ready"
    /\ fnIn = <<>>
    /\ fnOut = <<>>

\* .eq('household_id', householdId).eq('category', name) on transactions
TxnsNamed(rows, hid, name) ==
    {t \in rows : t.household_id = hid /\ t.category = name}

\* .eq('household_id', householdId).eq('category', name) on budgets
BudgetsNamed(rows, hid, name) ==
    {b \in rows : b.household_id = hid /\ b.category = name}

Over(pc) == pc \in {"idle", "returned", "thrown"}

\* onRenameCategory: a new name is typed for a category of the household on
\* screen and renameCategoryAndMigrate is called
renameCategoryAndMigrate ==
    /\ PageInReach
    /\ Over(ren.pc) /\ Over(del.pc)
    /\ ren.n + del.n < MaxCategoryCalls
    /\ \E c \in {x \in cats : x.household_id = householdId} :
       \E name \in NewNames \ categoryNames :
        ren' = [pc |-> "category", n |-> ren.n + 1,
                hid |-> c.household_id, id |-> c.id, oldName |-> c.name,
                newName |-> name, amount |-> 0, failed |-> {},
                had |-> {t.id : t \in TxnsNamed(store, c.household_id, c.name)},
                hadBudget |-> BudgetsNamed(budgets, c.household_id, c.name),
                edits0 |-> nEdits, quiet |-> edits = {}]
    /\ UNCHANGED <<dateImpl, dbVars, uiVars, importVars, alerted, histVars,
                   fnVars, learnVars, cats, budgets, del, hhVars>>

Failed(r, step) == [r EXCEPT !.pc = "thrown", !.failed = @ \cup {step}]

\* the category row is renamed; an error is thrown
renameUpdateCategory ==
    /\ ren.pc = "category"
    /\ \E dbError \in {"none", "other"} :
        IF dbError = "none"
        THEN /\ cats' = {IF c.id = ren.id THEN [c EXCEPT !.name = ren.newName]
                         ELSE c : c \in cats}
             /\ ren' = [ren EXCEPT !.pc = "transactions"]
        ELSE /\ ren' = Failed(ren, "category")
             /\ UNCHANGED cats
    /\ UNCHANGED <<dateImpl, dbVars, uiVars, importVars, alerted, histVars,
                   fnVars, learnVars, budgets, del, hhVars>>

MigrateNone(rows, hid, oldName, newName) == rows

\* update({ category: newName }) on the household's rows named oldName
Migrate(rows, hid, oldName, newName) ==
    {IF t.household_id = hid /\ t.category = oldName
     THEN [t EXCEPT !.category = newName] ELSE t : t \in rows}

\* the transactions are migrated; an error is thrown
renameMigrateTxns ==
    /\ ren.pc = "transactions"
    /\ \E dbError \in {"none", "other"} :
        IF dbError = "none"
        THEN /\ store' = Migrate(store, ren.hid, ren.oldName, ren.newName)
             /\ ren' = [ren EXCEPT !.pc = "budget"]
        ELSE /\ ren' = Failed(ren, "transactions")
             /\ UNCHANGED store
    /\ UNCHANGED <<dateImpl, nextId, uiVars, importVars, alerted, histVars,
                   fnVars, learnVars, cats, budgets, del, hhVars>>

\* the rest of onRenameCategory once renameCategoryAndMigrate has returned:
\* the lists are read again
Refreshed(rows, hid) == OrderByDate({t \in rows : t.household_id = hid})

\* the old budget row is looked up; the error of the lookup is not read, so
\* a failed lookup is a lookup that found nothing
renameFindBudget ==
    /\ ren.pc = "budget"
    /\ \E dbError \in {"none", "other"} :
       \E found \in {IF dbError = "none"
                     THEN BudgetsNamed(budgets, ren.hid, ren.oldName)
                     ELSE {}} :
        IF found # {}
        THEN /\ ren' = [ren EXCEPT !.pc = "upsert",
                                   !.amount = (CHOOSE b \in found : TRUE).amount]
             /\ UNCHANGED txns
        ELSE /\ ren' = [ren EXCEPT !.pc = "returned",
                                   !.failed = IF dbError = "none" THEN @
                                              ELSE @ \cup {"budget"}]
             /\ txns' = Refreshed(store, ren.hid)
    /\ UNCHANGED <<dateImpl, dbVars, householdId, negativesAreSpend,
                   lsNegSpend, lsRules, learnRules, formCategory,
                   listInFlight, showPreview, previewRows, mapping,
                   importVars, alerted, histVars, fnVars, learnVars, cats,
                   budgets, del, hhVars>>

\* upsertBudget: the row of (household, category) is written
upsertBudget(rows, hid, category, amount) ==
    (rows \ BudgetsNamed(rows, hid, category))
        \cup {Budget(hid, category, amount)}

\* the budget is written under the new name; an error is thrown
renameUpsertBudget ==
    /\ ren.pc = "upsert"
    /\ \E dbError \in {"none", "other"} :
        IF dbError = "none"
        THEN /\ budgets' = upsertBudget(budgets, ren.hid, ren.newName,
                                        ren.amount)
             /\ ren' = [ren EXCEPT !.pc = "delete"]
        ELSE /\ ren' = Failed(ren, "upsert")
             /\ UNCHANGED budgets
    /\ UNCHANGED <<dateImpl, dbVars, uiVars, importVars, alerted, histVars,
                   fnVars, learnVars, cats, del, hhVars>>

\* delete() on the household's budget rows named name
WithoutBudget(rows, hid, name) == rows \ BudgetsNamed(rows, hid, name)

\* the old budget row is deleted; the answer is not read, and the function
\* returns
renameDeleteBudget ==
    /\ ren.pc = "delete"
    /\ \E dbError \in {"none", "other"} :
        /\ budgets' = (IF dbError = "none"
                       THEN WithoutBudget(budgets, ren.hid, ren.oldName)
                       ELSE budgets)
        /\ ren' = [ren EXCEPT !.pc = "returned",
                              !.failed = IF dbError = "none" THEN @
                                         ELSE @ \cup {"delete"}]
    /\ txns' = Refreshed(store, ren.hid)
    /\ UNCHANGED <<dateImpl, dbVars, householdId, negativesAreSpend,
                   lsNegSpend, lsRules, learnRules, formCategory,
                   listInFlight, showPreview, previewRows, mapping,
                   importVars, alerted, histVars, fnVars, learnVars, cats,
                   del, hhVars>>

\* onDeleteCategory: deleteCategoryIfUnused is called for a category of the
\* household on screen
deleteCategoryIfUnused ==
    /\ PageInReach
    /\ Over(ren.pc) /\ Over(del.pc)
    /\ ren.n + del.n < MaxCategoryCalls
    /\ \E c \in {x \in cats : x.household_id = householdId} :
        del' = [pc |-> "transactions", n |-> del.n + 1,
                hid |-> c.household_id, id |-> c.id, name |-> c.name,
                error |-> "", failed |-> {}, usedAtDelete |-> FALSE,
                used |-> \/ TxnsNamed(store, c.household_id, c.name) # {}
                         \/ BudgetsNamed(budgets, c.household_id, c.name) # {},
                cats0 |-> cats, store0 |-> store, budgets0 |-> budgets,
                edits0 |-> nEdits, quiet |-> edits = {},
                renames0 |-> ren.n]
    /\ UNCHANGED <<dateImpl, dbVars, uiVars, importVars, alerted, histVars,
                   fnVars, learnVars, cats, budgets, ren, hhVars>>

Thrown(d, step, dbError, message) ==
    IF dbError = "none"
    THEN [d EXCEPT !.pc = "thrown", !.error = message]
    ELSE [d EXCEPT !.pc = "thrown", !.error = "database error",
                   !.failed = @ \cup {step}]

\* the transactions naming the category are counted
deleteCountTxns ==
    /\ del.pc = "transactions"
    /\ \E dbError \in {"none", "other"} :
        del' = IF dbError = "none"
                  /\ Cardinality(TxnsNamed(store, del.hid, del.name)) = 0
               THEN [del EXCEPT !.pc = "budgets"]
               ELSE Thrown(del, "transactions", dbError,
                           "Category in use by transactions")
    /\ UNCHANGED <<dateImpl, dbVars, uiVars, importVars, alerted, histVars,
                   fnVars, learnVars, cats, budgets, ren, hhVars>>

BudgetCountNone(rows, hid, name) == 0

BudgetCount(rows, hid, name) == Cardinality(BudgetsNamed(rows, hid, name))

\* the budget rows naming the category are counted
deleteCountBudgets ==
    /\ del.pc = "budgets"
    /\ \E dbError \in {"none", "other"} :
        del' = IF dbError = "none" /\ BudgetCount(budgets, del.hid, del.name) = 0
               THEN [del EXCEPT !.pc = "category"]
               ELSE Thrown(del, "budgets", dbError,
                           "Category in use by budgets")
    /\ UNCHANGED <<dateImpl, dbVars, uiVars, importVars, alerted, histVars,
                   fnVars, learnVars, cats, budgets, ren, hhVars>>

\* the category row is deleted
deleteCategoryRow ==
    /\ del.pc = "category"
    /\ \E dbError \in {"none", "other"} :
        IF dbError = "none"
        THEN /\ cats' = {c \in cats : c.id # del.id}
             /\ del' = [del EXCEPT
                          !.pc = "returned",
                          !.usedAtDelete =
                              \/ TxnsNamed(store, del.hid, del.name) # {}
                              \/ BudgetsNamed(budgets, del.hid, del.name) # {}]
        ELSE /\ del' = Thrown(del, "category", dbError, "")
             /\ UNCHANGED cats
    /\ UNCHANGED <<dateImpl, dbVars, uiVars, importVars, alerted, histVars,
                   fnVars, learnVars, budgets, ren, hhVars>>

NextCats ==
    \/ dismissAlert
    \/ onChangeCategory
    \/ updateReturn
    \/ renameCategoryAndMigrate
    \/ renameUpdateCategory
    \/ renameMigrateTxns
    \/ renameFindBudget
    \/ renameUpsertBudget
    \/ renameDeleteBudget
    \/ deleteCategoryIfUnused
    \/ deleteCountTxns
    \/ deleteCountBudgets
    \/ deleteCategoryRow

SpecCats == InitCats /\ [][NextCats]_vars

(***************************************************************************)
(* Specification SpecSwitch: household switches from the bootstrap on,     *)
(* while the list of the first household is still being fetched            *)
(***************************************************************************)
InitSwitch ==
    /\ dateImpl = "mdyLocalWest"
    /\ \E k \in 0..Len(StoredTxns) :
        StartInit("h1", TRUE, {StoredTxns[i] : i \in 1..k}, FALSE)
    /\ ExtInit
    /\ fnPc = "ready"
    /\ fnIn = <<>>
    /\ fnOut = <<>>

NextSwitch ==
    \/ dismissAlert
    \/ onAdd
    \/ onSelectHousehold
    \/ listReturn
    \/ toggleNegatives

SpecSwitch == InitSwitch /\ [][NextSwitch]_vars

(***************************************************************************)
(* Specification SpecEdit: imports and manual entries of one household     *)
(* next to category corrections                                            *)
(***************************************************************************)
NextEdit ==
    \/ dismissAlert
    \/ openPreview
    \/ commitImport
    \/ insertReturn
    \/ onAdd
    \/ onChangeCategory
    \/ updateReturn

SpecEdit == Init /\ [][NextEdit]_vars

(***************************************************************************)
(* Specification SpecMerchant: the merchant guess of commitImport applied  *)
(* to bounded descriptions                                                 *)
(***************************************************************************)
MaxWords == 7

\* what a bank statement puts between two words: a space, two spaces, a tab
Separators == {<<32>>, <<32, 32>>, <<9>>}

RECURSIVE Described(_)
\* the cells of n one-letter words a, b, c, ...
Described(n) ==
    IF n = 1 THEN {<<97>>}
    ELSE {d \o sep \o <<96 + n>> : d \in Described(n - 1), sep \in Separators}

Descriptions ==
    {<<>>} \cup
        {pad \o d : pad \in {<<>>, <<32>>},
                    d \in UNION {Described(n) : n \in 1..MaxWords}}

InitMerchant ==
    /\ Parked
    /\ dateImpl = "isoOnly"
    /\ fnIn \in Descriptions
    /\ fnPc = "ready"
    /\ fnOut = <<>>

\* desc = String(r[mapping.desc] ?? '').trim(), then the merchant guess
ApplyMerchantGuess ==
    /\ fnPc = "ready"
    /\ fnPc' = "done"
    /\ fnOut' = MerchantGuess(Trim(fnIn))
    /\ UNCHANGED <<dateImpl, appVars, fnIn>>

NextMerchant == ApplyMerchantGuess

SpecMerchant == InitMerchant /\ [][NextMerchant]_vars

(***************************************************************************)
(* Specification SpecHousehold: household switches, onDeleteHousehold and  *)
(* page reloads                                                            *)
(***************************************************************************)
HouseholdIds(list) == {list[i] : i \in 1..Len(list)}

WithoutHousehold(list, hid) == SelectSeq(list, LAMBDA h : h # hid)

\* loadLearnRules(hid): {} when nothing is stored for hid
loadLearnRules(hid) == IF hid \in DOMAIN lsRules THEN lsRules[hid] ELSE <<>>

InitHousehold ==
    /\ dateImpl = "mdyLocalWest"
    /\ \E k \in 0..Len(StoredTxns) :
        BootInit("h1", TRUE, {StoredTxns[i] : i \in 1..k})
    /\ ExtInit
    /\ fnPc = "ready"
    /\ fnIn = <<>>
    /\ fnOut = <<>>

\* onDeleteHousehold up to its first await: both prompts were confirmed and
\* the DELETE request is sent; the button is disabled while deleteHHBusy
onDeleteHousehold ==
    /\ PageInReach
    /\ householdId # ""
    /\ delHH.pc = "idle"
    /\ delHH' = [pc |-> "delete", hid |-> householdId]
    /\ UNCHANGED <<dateImpl, dbVars, uiVars, importVars, alerted, histVars,
                   fnVars, learnVars, catVars, lsActive, dbHouseholds,
                   households>>

\* the DELETE request answers: the row is gone (and with it, by cascade, the
\* transactions of the household) and listMyHouseholds is sent, or the
\* handler alerts and ends
deleteHouseholdReturn ==
    /\ alerted = NoAlert
    /\ delHH.pc = "delete"
    /\ \E ok \in BOOLEAN :
        IF ok
        THEN /\ dbHouseholds' = WithoutHousehold(dbHouseholds, delHH.hid)
             /\ store' = {t \in store : t.household_id # delHH.hid}
             /\ delHH' = [delHH EXCEPT !.pc = "list"]
             /\ UNCHANGED alerted
        ELSE /\ alerted' = Alert("Delete failed")
             /\ delHH' = NoHouseholdDelete
             /\ UNCHANGED <<dbHouseholds, store>>
    /\ UNCHANGED <<dateImpl, nextId, uiVars, importVars, histVars, fnVars,
                   learnVars, catVars, lsActive, households>>

\* listMyHouseholds answers: the list in memory is replaced, its first
\* household (or none) becomes the active one in memory and the effects on
\* householdId run; the categories are fetched again by the same effect
householdsReturn ==
    /\ alerted = NoAlert
    /\ delHH.pc = "list"
    /\ \E ok \in BOOLEAN :
        IF ok
        THEN \E first \in {IF dbHouseholds = <<>> THEN ""
                           ELSE dbHouseholds[1]} :
             /\ households' = dbHouseholds
             /\ householdId' = first
             /\ txns' = <<>>
             /\ learnRules' = loadLearnRules(first)
             /\ listInFlight' = (IF first \in {"", householdId}
                                 THEN listInFlight
                                 ELSE listInFlight \cup {first})
             /\ UNCHANGED alerted
        ELSE /\ alerted' = Alert("Failed to delete household")
             /\ UNCHANGED <<households, householdId, txns, learnRules,
                            listInFlight>>
    /\ delHH' = NoHouseholdDelete
    /\ UNCHANGED <<dateImpl, dbVars, negativesAreSpend, lsNegSpend, lsRules,
                   formCategory, showPreview, previewRows, mapping,
                   importVars, histVars, fnVars, learnVars, catVars,
                   lsActive, dbHouseholds>>

\* ensureHousehold: the saved id if there is one, else the first household
\* of the user, else a household created for them
ensureHousehold ==
    IF lsActive # "" THEN [hid |-> lsActive, created |-> FALSE]
    ELSE IF dbHouseholds # <<>>
    THEN [hid |-> dbHouseholds[1], created |-> FALSE]
    ELSE [hid |-> "h3", created |-> TRUE]

\* the page is loaded again: the bootstrap effect and the effects on
\* householdId run on a fresh component
bootstrap ==
    /\ PageInReach
    /\ delHH.pc = "idle"
    /\ listInFlight = {}
    /\ \E e \in {ensureHousehold} :
        /\ lsActive' = e.hid
        /\ dbHouseholds' = (IF e.created THEN Append(dbHouseholds, e.hid)
                            ELSE dbHouseholds)
        /\ households' = dbHouseholds'
        /\ householdId' = e.hid
        /\ learnRules' = loadLearnRules(e.hid)
        /\ listInFlight' = {e.hid}
    /\ txns' = <<>>
    /\ UNCHANGED <<dateImpl, dbVars, negativesAreSpend, lsNegSpend, lsRules,
                   formCategory, showPreview, previewRows, mapping,
                   importVars, alerted, histVars, fnVars, learnVars, catVars,
                   delHH>>

NextHousehold ==
    \/ dismissAlert
    \/ onSelectHousehold
    \/ listReturn
    \/ onDeleteHousehold
    \/ deleteHouseholdReturn
    \/ householdsReturn
    \/ bootstrap

SpecHousehold == InitHousehold /\ [][NextHousehold]_vars

(***************************************************************************)
(* Specification SpecDate: toISO applied to bounded inputs                 *)
(***************************************************************************)
MaxDayField == 32

YearFields == {24, 2023, 2024}

sNotADate == <<110, 111, 116, 45, 97, 45, 100, 97, 116, 101>>

\* a, b and c written as a date string with separator sep, the first two
\* fields zero-padded to w digits
DmyString(a, b, c, sep, w) ==
    Pad(a, w) \o <<sep>> \o Pad(b, w) \o <<sep>> \o Pad(c, 2)

DateInputs ==
    {DmyString(a, b, c, sep, w) :
        a \in 0..MaxDayField, b \in 0..MaxDayField, c \in YearFields,
        sep \in {47, 45}, w \in {1, 2}}
    \cup {sNotADate, <<>>, ISODate(DaysFromCivil(2024, 1, 31))}

InitDate ==
    /\ Parked
    /\ dateImpl \in DateImpls
    /\ fnIn \in DateInputs
    /\ fnPc = "ready"
    /\ fnOut = <<>>

ApplyToISO ==
    /\ fnPc = "ready"
    /\ fnPc' = "done"
    /\ fnOut' = toISO(fnIn, dateImpl)
    /\ UNCHANGED <<dateImpl, appVars, fnIn>>

NextDate == ApplyToISO

SpecDate == InitDate /\ [][NextDate]_vars

(***************************************************************************)
(* Specification SpecAmount: the amount resolution of commitImport applied *)
(* to bounded rows, mappings and sign conventions                          *)
(***************************************************************************)
sMinus45 == <<45, 52, 53, 46, 48, 48>>

s45 == <<52, 53, 46, 48, 48>>

NumberCells ==
    {sMinus45, s45, <<48>>, <<>>, <<97, 98, 99>>,
     <<49, 44, 50, 51, 52, 46, 53, 48>>, <<45, 48, 46, 48, 49>>,
     <<32, 49, 50, 46, 53, 32>>}

AmountRows ==
    [Date : {ISODate(DaysFromCivil(2024, 1, 31))}, Desc : {<<83>>},
     Amount : NumberCells, Debit : NumberCells, Credit : NumberCells]

AmountMappings ==
    [date : {"Date"}, desc : {"Desc"}, amount : {"", "Amount"},
     debit : {"", "Debit"}, credit : {"", "Credit"}]

InitAmount ==
    /\ Parked
    /\ dateImpl = "isoOnly"
    /\ fnIn \in [row : AmountRows, mapping : AmountMappings, ls : {"0", "1"}]
    /\ fnPc = "ready"
    /\ fnOut = <<>>

ApplyResolve ==
    /\ fnPc = "ready"
    /\ fnPc' = "done"
    /\ LET amount == ResolveAmount(fnIn.row, fnIn.mapping, fnIn.ls)
       IN  fnOut' = [amount |-> amount, skipped |-> ~IsSpend(amount)]
    /\ UNCHANGED <<dateImpl, appVars, fnIn>>

NextAmount == ApplyResolve

SpecAmount == InitAmount /\ [][NextAmount]_vars

(***************************************************************************)
(* Specification SpecFp: fingerprint applied to an input, then to every    *)
(* input reached from it by changes of letter case, added white space and  *)
(* the sign of the amount                                                  *)
(***************************************************************************)
MaxFpLen == 4

FpDates ==
    {ISODate(DaysFromCivil(2024, 1, 31)),
     ISODate(DaysFromCivil(2024, 1, 31)) \o <<84, 49, 48>>}

FpAmounts == {45000, -12344}

FpMerchants == {<<87, 111>>, <<97, 32, 98>>}

FpDescriptions == {<<>>, <<99, 9, 100>>}

FpFields == {"merchant", "description"}

FlipChar(c) ==
    IF c \in 97..122 THEN c - 32 ELSE IF c \in 65..90 THEN c + 32 ELSE c

InsertAt(s, i, c) == SubSeq(s, 1, i - 1) \o <<c>> \o SubSeq(s, i, Len(s))

InitFp ==
    /\ Parked
    /\ dateImpl = "isoOnly"
    /\ fnIn \in [date : FpDates, amount : FpAmounts,
                 merchant : FpMerchants, description : FpDescriptions]
    /\ fnPc = "ready"
    /\ fnOut = <<>>

ApplyFingerprint ==
    /\ fnPc = "ready"
    /\ fnPc' = "done"
    /\ fnOut' = fingerprint(fnIn.date, fnIn.amount, fnIn.merchant,
                            fnIn.description)
    /\ UNCHANGED <<dateImpl, appVars, fnIn>>

\* the case of one letter of the merchant or the description changes
FlipCase ==
    /\ fnPc = "done"
    /\ \E f \in FpFields : \E i \in 1..Len(fnIn[f]) :
        /\ FlipChar(fnIn[f][i]) # fnIn[f][i]
        /\ fnIn' = [fnIn EXCEPT ![f][i] = FlipChar(@)]
    /\ UNCHANGED <<dateImpl, appVars, fnPc, fnOut>>

\* a space is added in front, at the end or next to white space of the
\* merchant or the description
AddSpace ==
    /\ fnPc = "done"
    /\ \E f \in FpFields : \E i \in 1..(Len(fnIn[f]) + 1) :
        /\ Len(fnIn[f]) < MaxFpLen
        /\ IF i = 1 \/ i = Len(fnIn[f]) + 1 THEN TRUE
           ELSE IsSpace(fnIn[f][i]) \/ IsSpace(fnIn[f][i - 1])
        /\ fnIn' = [fnIn EXCEPT ![f] = InsertAt(@, i, 32)]
    /\ UNCHANGED <<dateImpl, appVars, fnPc, fnOut>>

NegateAmount ==
    /\ fnPc = "done"
    /\ fnIn' = [fnIn EXCEPT !.amount = 0 - @]
    /\ UNCHANGED <<dateImpl, appVars, fnPc, fnOut>>

NextFp == ApplyFingerprint \/ FlipCase \/ AddSpace \/ NegateAmount

SpecFp == InitFp /\ [][NextFp]_vars

(***************************************************************************)
(* guessCols: the column roles proposed for a sheet's headers              *)
(***************************************************************************)
\* toLowerCase on the Latin letters A-Z
LowerChar(c) == IF c \in 65..90 THEN c + 32 ELSE c

toLowerCase(s) == [i \in 1..Len(s) |-> LowerChar(s[i])]

\* s.replace(/\s+/g, '_'): every run of white space becomes one underscore
Underscored(s) ==
    LET t == CollapseSpaces(s)
    IN  [i \in 1..Len(t) |-> IF IsSpace(t[i]) THEN 95 ELSE t[i]]

\* the class [a-z0-9_]
IsNormChar(c) == c \in 97..122 \/ IsDigit(c) \/ c = 95

norm(s) ==
    SelectSeq(Underscored(toLowerCase(IF Falsy(s) THEN <<>> ELSE s)),
              IsNormChar)

\* the names guessCols accepts for each role, already normalized
DateNames ==
    {
      <<100, 97, 116, 101>>,   \* date
      <<116, 114, 97, 110, 115, 97, 99, 116, 105, 111, 110, 95, 100, 97, 116, 101>>,   \* transaction_date
      <<116, 120, 110, 95, 100, 97, 116, 101>>,   \* txn_date
      <<112, 111, 115, 116, 101, 100, 95, 100, 97, 116, 101>>,   \* posted_date
      <<118, 97, 108, 117, 101, 95, 100, 97, 116, 101>>,   \* value_date
      <<101, 102, 102, 101, 99, 116, 105, 118, 101, 95, 100, 97, 116, 101>>    \* effective_date
    }

DescNames ==
    {
      <<100, 101, 115, 99, 114, 105, 112, 116, 105, 111, 110>>,   \* description
      <<100, 101, 116, 97, 105, 108, 115>>,   \* details
      <<110, 97, 114, 114, 97, 116, 105, 111, 110>>,   \* narration
      <<109, 101, 109, 111>>,   \* memo
      <<112, 97, 114, 116, 105, 99, 117, 108, 97, 114, 115>>,   \* particulars
      <<116, 114, 97, 110, 115, 97, 99, 116, 105, 111, 110, 95, 100, 101, 116, 97, 105, 108, 115>>,   \* transaction_details
      <<116, 114, 97, 110, 115, 97, 99, 116, 105, 111, 110, 95, 100, 101, 115, 99, 114, 105, 112, 116, 105, 111, 110>>,   \* transaction_description
      <<114, 101, 102, 101, 114, 101, 110, 99, 101>>    \* reference
    }

AmountNames ==
    {
      <<97, 109, 111, 117, 110, 116>>,   \* amount
      <<116, 114, 97, 110, 115, 97, 99, 116, 105, 111, 110, 95, 97, 109, 111, 117, 110, 116>>,   \* transaction_amount
      <<97, 117, 100>>,   \* aud
      <<97, 109, 116>>,   \* amt
      <<118, 97, 108, 117, 101>>    \* value
    }

DebitNames ==
    {
      <<100, 101, 98, 105, 116>>,   \* debit
      <<119, 105, 116, 104, 100, 114, 97, 119, 97, 108>>,   \* withdrawal
      <<100, 101, 98, 105, 116, 95, 97, 109, 111, 117, 110, 116>>    \* debit_amount
    }

CreditNames ==
    {
      <<99, 114, 101, 100, 105, 116>>,   \* credit
      <<100, 101, 112, 111, 115, 105, 116>>,   \* deposit
      <<99, 114, 101, 100, 105, 116, 95, 97, 109, 111, 117, 110, 116>>    \* credit_amount
    }

\* what `find(...)?.raw` gives when no header matches
Undefined == <<-2>>

RECURSIVE pickLast(_, _)
pickLast(headers, cands) ==
    IF headers = <<>> THEN Undefined
    ELSE IF norm(headers[Len(headers)]) \in cands
    THEN headers[Len(headers)]
    ELSE pickLast(SubSeq(headers, 1, Len(headers) - 1), cands)

RECURSIVE pick(_, _)
\* H.find(x => cands.includes(x.k))?.raw
pick(headers, cands) ==
    IF headers = <<>> THEN Undefined
    ELSE IF norm(Head(headers)) \in cands THEN Head(headers)
    ELSE pick(Tail(headers), cands)

guessCols(headers) ==
    [date   |-> pick(headers, DateNames),
     desc   |-> pick(headers, DescNames),
     amount |-> pick(headers, AmountNames),
     debit  |-> pick(headers, DebitNames),
     credit |-> pick(headers, CreditNames)]

(***************************************************************************)
(* Specification SpecCols: guessCols applied to bounded header rows        *)
(***************************************************************************)
MaxHeaders == 4

\* "Txn Date"
hTxnDate == <<84, 120, 110, 32, 68, 97, 116, 101>>

\* "Narration"
hNarration == <<78, 97, 114, 114, 97, 116, 105, 111, 110>>

\* "Debit"
hDebit == <<68, 101, 98, 105, 116>>

\* "Credit"
hCredit == <<67, 114, 101, 100, 105, 116>>

\* "DATE"
hDateUpper == <<68, 65, 84, 69>>

\* "Amount ($)"
hAmountDollar == <<65, 109, 111, 117, 110, 116, 32, 40, 36, 41>>

\* "Value"
hValue == <<86, 97, 108, 117, 101>>

\* "Debit  Amount"
hDebitAmount == <<68, 101, 98, 105, 116, 32, 32, 65, 109, 111, 117, 110, 116>>

\* "Balance"
hBalance == <<66, 97, 108, 97, 110, 99, 101>>

HeaderPool ==
    {hTxnDate, hNarration, hDebit, hCredit, hDateUpper, hAmountDollar,
     hValue, hDebitAmount, hBalance}

HeaderRows == UNION {[1..n -> HeaderPool] : n \in 0..MaxHeaders}

InitCols ==
    /\ Parked
    /\ dateImpl = "isoOnly"
    /\ fnIn \in HeaderRows
    /\ fnPc = "ready"
    /\ fnOut = <<>>

ApplyGuessCols ==
    /\ fnPc = "ready"
    /\ fnPc' = "done"
    /\ fnOut' = guessCols(fnIn)
    /\ UNCHANGED <<dateImpl, appVars, fnIn>>

NextCols == ApplyGuessCols

SpecCols == InitCols /\ [][NextCols]_vars

(***************************************************************************)
(* The claims                                                              *)
(***************************************************************************)
\* the import just completed repeats the one before it (same rows, mapping,
\* household and sign flag), and the one before lost no insert to a failure
\* commitImport has run through all its rows
ImportOver == importPc \in {"alert", "done"}

RepeatedImportDone ==
    ImportOver /\ prevRun # NoRun /\ prevRun.failed = 0

\* C1 (as claimed): when an import is repeated, the second run adds nothing,
\* skips as many rows as the first run added, and leaves the stored
\* transactions as the first run left them.
ReimportSkipsWhatWasAdded ==
    (ImportOver /\ prevRun # NoRun) =>
        /\ added = 0
        /\ skipped = prevRun.added
        /\ ImportRows(store) = prevRun.stored

\* C1 (amended): when an import is repeated and no insert of the first run
\* failed for a reason other than a uniqueness conflict, the second run adds
\* nothing, skips every row submitted (those the first run added and those
\* it skipped), and leaves the imported transactions as the first run left
\* them.
ReimportAddsNothing ==
    RepeatedImportDone =>
        /\ added = 0
        /\ skipped = Len(imp.rows)
        /\ skipped = prevRun.added + prevRun.skipped
        /\ ImportRows(store) = prevRun.stored

ReimportOfAddedRowsDone ==
    RepeatedImportDone /\ prevRun.added > 0 /\ added = 0

\* C2: no two stored transactions of one household carry the same non-null
\* external identifier, and an insert the table refuses for that reason
\* comes back from addTransaction as null: not thrown, nothing stored.
UniqueExternalIdPerHousehold ==
    /\ \A s, t \in store :
        (/\ s.household_id = t.household_id
         /\ s.external_id = t.external_id
         /\ s.external_id # Null) => s = t
    /\ \A s, t \in store : s.id = t.id => s = t
    /\ lastInsert.dbError = "23505" =>
        lastInsert.result = "null" /\ ~lastInsert.stored

DuplicateRefusedAsNull ==
    /\ lastInsert.dbError = "23505"
    /\ lastInsert.result = "null"
    /\ \E s, t \in store :
        s.external_id = t.external_id /\ s.household_id # t.household_id
    /\ \E s \in store : s.external_id = Null

\* C3: when an import has run to its end, added + skipped is the number of
\* rows submitted.
CountsCoverRows ==
    ImportOver =>
        /\ added + skipped = Len(imp.rows)
        /\ importPc = "alert" =>
            alerted.added + alerted.skipped = Len(imp.rows)

MixedImportDone ==
    /\ importPc = "done"
    /\ rowLog = <<"skipDate", "failed">>
    /\ added + skipped = 2

MappingOK(m) ==
    /\ m.date # ""
    /\ m.desc # ""
    /\ m.amount # "" \/ (m.debit # "" /\ m.credit # "")

\* C4: an import starts only on a mapping with date and description set and
\* either amount or both debit and credit set; on any other mapping the
\* click on Import processes no row, attempts no insert, leaves the store
\* as it is and shows a validation message.
InvalidMappingRejected ==
    [][commitImport =>
        IF MappingOK(mapping)
        THEN nImports' = nImports + 1 /\ imp'.mapping = mapping
        ELSE /\ store' = store
             /\ alerted'.msg \in ValidationMessages
             /\ UNCHANGED <<importVars, rowLog, lastInsert, nImports, txns>>]_vars

MappingRejectedShown ==
    /\ alerted.msg \in ValidationMessages
    /\ showPreview
    /\ ~MappingOK(mapping)
    /\ ~importBusy
    /\ store # {}

\* the rows whose date parses and whose resolved amount is above zero
DatedSpend ==
    [r \in {SheetRows[i] : i \in 1..Len(SheetRows)},
     m \in {m \in Mappings : MappingOK(m)},
     ls \in {"0", "1"}, impl \in DateImpls |->
        /\ ~Falsy(toISO(r[m.date], impl))
        /\ ResolveAmount(r, m, ls) > 0]

\* the rows of the running import that got as far as an insert
InsertAttempted(i) == rowLog[i] \in {"added", "duplicate", "failed"}

\* C5: an insert is attempted for a row only if its date parsed and its
\* resolved amount is above zero, so every stored transaction of source
\* "import" has an amount above zero.
ImportsOnlySpend ==
    /\ \A t \in store : t.source = "import" => t.amount > 0
    /\ inflight # <<>> => inflight[1].amount > 0 /\ IsIsoShape(inflight[1].date)
    /\ \A i \in 1..Len(rowLog) :
        InsertAttempted(i) <=>
            DatedSpend[imp.rows[i], imp.mapping, runFlag, dateImpl]

SkippedRowsNotInserted ==
    /\ importPc = "done"
    /\ rowLog = <<"skipDate", "skipAmount">>
    /\ ImportRows(store) # {}

\* C6: a uniqueness conflict and any other failed insert are each counted as
\* skipped, raise no error, and do not end the batch: the rows after them
\* are processed.
FailuresCountedAsSkipped ==
    /\ added = CountOf(rowLog, "added")
    /\ skipped = Len(rowLog) - CountOf(rowLog, "added")
    /\ importPc = "await" => Len(rowLog) = idx /\ idx < Len(imp.rows)
    /\ ImportOver => Len(rowLog) = Len(imp.rows)
    /\ importPc = "alert" =>
        /\ alerted.msg = "Import complete"
        /\ alerted.added = added
        /\ alerted.skipped = skipped

FailedThenDuplicateDone ==
    /\ importPc = "done"
    /\ rowLog = <<"failed", "duplicate">>
    /\ skipped = 2

sDayFirst == DmyString(31, 1, 2024, 47, 2)

sMonthFirst == DmyString(1, 31, 2024, 47, 2)

sJan31 == ISODate(DaysFromCivil(2024, 1, 31))

\* C7 (as claimed): on a D/M/Y-shaped string that the generic parser rejects,
\* toISO takes the day-first reading first and the month-first reading
\* second: "31/01/2024" and "01/31/2024" both give "2024-01-31", and
\* "not-a-date" gives null.
ToISODayFirstThenMonthFirst ==
    (fnPc = "done" /\ ~NewDate(fnIn, dateImpl).fin) =>
        /\ fnIn = sDayFirst => fnOut = sJan31
        /\ fnIn = sMonthFirst => fnOut = sJan31
        /\ fnIn = sNotADate => fnOut = Null

\* C8: with a single amount column in use and a parsed value a, the amount
\* is max(0, -a) when negatives are spend and max(0, a) when not; with the
\* flag on "-45.00" gives 45.00 and is imported, "45.00" gives 0 and is
\* skipped.
SingleAmountBySign ==
    (/\ fnPc = "done"
     /\ fnIn.mapping.amount # ""
     /\ ~(fnIn.mapping.debit # "" /\ fnIn.mapping.credit # "")
     /\ parseNumber(fnIn.row[fnIn.mapping.amount]).fin) =>
        LET a == parseNumber(fnIn.row[fnIn.mapping.amount]).v
        IN  /\ fnIn.ls = "1" =>
                fnOut.amount = (IF 0 - a > 0 THEN 0 - a ELSE 0)
            /\ fnIn.ls = "0" => fnOut.amount = (IF a > 0 THEN a ELSE 0)
            /\ (fnIn.ls = "1" /\ fnIn.row.Amount = sMinus45) =>
                (fnOut.amount = 45000 /\ ~fnOut.skipped)
            /\ (fnIn.ls = "1" /\ fnIn.row.Amount = s45) =>
                (fnOut.amount = 0 /\ fnOut.skipped)

SingleAmountNegativeImported ==
    /\ fnPc = "done"
    /\ fnIn.mapping.amount # "" /\ fnIn.mapping.debit = ""
    /\ fnIn.ls = "1" /\ fnIn.row.Amount = sMinus45
    /\ fnOut.amount = 45000 /\ ~fnOut.skipped

\* C9: with debit and credit both mapped they decide the amount, whatever
\* the amount column says: it is max(0, max(0, debit) - max(0, credit)),
\* never negative, and a row whose credit is at least its debit gets 0 and
\* is skipped.
DebitCreditFloored ==
    (/\ fnPc = "done"
     /\ fnIn.mapping.debit # "" /\ fnIn.mapping.credit # ""
     /\ parseNumber(fnIn.row[fnIn.mapping.debit]).fin
     /\ parseNumber(fnIn.row[fnIn.mapping.credit]).fin) =>
        LET debit  == parseNumber(fnIn.row[fnIn.mapping.debit]).v
            credit == parseNumber(fnIn.row[fnIn.mapping.credit]).v
            d0     == IF debit > 0 THEN debit ELSE 0
            c0     == IF credit > 0 THEN credit ELSE 0
        IN  /\ fnOut.amount = (IF d0 - c0 > 0 THEN d0 - c0 ELSE 0)
            /\ fnOut.amount >= 0
            /\ credit >= debit => (fnOut.amount = 0 /\ fnOut.skipped)

DebitCreditRefundSkipped ==
    /\ fnPc = "done"
    /\ fnIn.mapping.debit # "" /\ fnIn.mapping.credit # ""
    /\ fnIn.mapping.amount # "" /\ fnIn.ls = "0"
    /\ fnIn.row.Amount = s45
    /\ fnIn.row.Debit = <<32, 49, 50, 46, 53, 32>>
    /\ fnIn.row.Credit = s45
    /\ fnOut.amount = 0 /\ fnOut.skipped

\* C10: fingerprint gives the same string for inputs that differ only in
\* the letter case and the leading, trailing or repeated white space of
\* merchant and description and in the sign of the amount.
FingerprintNormalized ==
    fnPc = "done" =>
        fingerprint(fnIn.date, fnIn.amount, fnIn.merchant, fnIn.description)
            = fnOut

\* an input reached by changing case, white space and sign
FingerprintVariantReached ==
    /\ fnPc = "done"
    /\ fnIn.amount = -45000
    /\ fnIn.merchant = <<32, 119, 79, 32>>
    /\ fnIn.description = <<67, 9, 32, 68>>


(***************************************************************************)
(* C11: for each role guessCols proposes the first header, in the order    *)
(* given, whose normalized form is one of the role's names, and leaves the *)
(* role unset when no header matches; on Txn Date, Narration, Debit,       *)
(* Credit it proposes those four and leaves the amount unset.              *)
(***************************************************************************)
RoleNames ==
    [date |-> DateNames, desc |-> DescNames, amount |-> AmountNames,
     debit |-> DebitNames, credit |-> CreditNames]

Roles == {"date", "desc", "amount", "debit", "credit"}

Matching(headers, role) ==
    {i \in 1..Len(headers) : norm(headers[i]) \in RoleNames[role]}

BankHeaders == <<hTxnDate, hNarration, hDebit, hCredit>>

GuessColsFirstMatch ==
    fnPc = "done" =>
        /\ \A role \in Roles :
            IF Matching(fnIn, role) = {}
            THEN fnOut[role] = Undefined
            ELSE \E i \in Matching(fnIn, role) :
                    /\ \A j \in Matching(fnIn, role) : i <= j
                    /\ fnOut[role] = fnIn[i]
        /\ fnIn = BankHeaders =>
            fnOut = [date |-> hTxnDate, desc |-> hNarration,
                     amount |-> Undefined, debit |-> hDebit,
                     credit |-> hCredit]

\* the bank sheet of the example has been guessed
BankHeadersGuessed ==
    /\ fnPc = "done"
    /\ fnIn = BankHeaders
    /\ fnOut.amount = Undefined
    /\ fnOut.date = hTxnDate

(***************************************************************************)
(* C12: once a correction has given "Fuel" to a transaction whose merchant *)
(* is Shell, a manual entry of the same household with merchant Shell and  *)
(* no category picked on the form is stored with category "Fuel".          *)
(***************************************************************************)
\* the rows an onAdd step has stored
NewRows == IF onAdd THEN store' \ store ELSE {}

\* a correction of this household has given category cat to merchant
CorrectedTo(hid, merchant, cat) ==
    /\ \E t \in store :
        /\ t.household_id = hid
        /\ t.merchant = merchant
        /\ t.category = cat
        /\ t # EarlierTxn
        /\ t.id = EarlierTxn.id
    /\ normKey(merchant) \in DOMAIN lsRules[hid]
    /\ lsRules[hid][normKey(merchant)] = cat

LearnedCategoryApplied ==
    [][\A t \in NewRows :
        (~formChosen /\ CorrectedTo(t.household_id, t.merchant, "Fuel"))
            => t.category = "Fuel"]_vars

(***************************************************************************)
(* C13: a category the user picked on the form is the one onAdd stores,    *)
(* also when a learn rule matches the merchant or the description.         *)
(***************************************************************************)
ChosenCategoryStored ==
    [][\A t \in NewRows : formChosen => t.category = formCategory]_vars

\* a manual entry is stored under the category picked on the form although
\* the rules of its household suggest another one for its merchant
ChosenOverSuggestionStored ==
    /\ formChosen
    /\ \E t \in store :
        /\ t.source = "manual"
        /\ t \notin EarlierTxns
        /\ t.category = formCategory
        /\ suggestCategory(t.merchant, t.description, learnRules)
               \notin {"", t.category}

(***************************************************************************)
(* C19: an explicit category assignment made through onAdd creates or      *)
(* overwrites the learn rule of the entry's merchant (or description), as  *)
(* one made through onChangeCategory does.                                 *)
(***************************************************************************)
HasRule(rules, key, cat) == key \in DOMAIN rules /\ rules[key] = cat

AddLearnsRule ==
    [][\A t \in NewRows :
        formChosen =>
            HasRule(lsRules'[t.household_id], RuleKey(t), t.category)]_vars

(***************************************************************************)
(* C20: the learn rules in memory are those stored for the household on    *)
(* screen, so a rule learned in one household suggests nothing in another. *)
(***************************************************************************)
RulesOfActiveHousehold == learnRules = lsRules[householdId]

(***************************************************************************)
(* C18: the sign-convention flag belongs to a household: setting it while  *)
(* one household is on screen leaves the value commitImport uses for an    *)
(* import into any other household as it was.                              *)
(***************************************************************************)
\* what commitImport reads for an import into hid: the item's key names no
\* household
FlagUsedFor(hid) == lsNegSpend

FlagPerHousehold ==
    [][\A hid \in Households \ {householdId} :
        FlagUsedFor(hid)' = FlagUsedFor(hid)]_vars

(***************************************************************************)
(* C14: when renameCategoryAndMigrate has returned, none of its statements *)
(* failed and no category correction ran next to it, no transaction of the *)
(* household is named oldName, every transaction that was named oldName is *)
(* named newName, and the budget row of oldName, if there was one, is the  *)
(* row of newName with the same amount.                                    *)
(***************************************************************************)
\* no correction was under way at the call and none has started since
RenameUndisturbed == ren.quiet /\ ren.edits0 = nEdits

RenameFailureThrown ==
    /\ (Over(ren.pc) /\ ren.failed # {}) => ren.pc = "thrown"
    /\ (ren.pc = "returned" /\ RenameUndisturbed) =>
        /\ TxnsNamed(store, ren.hid, ren.oldName) = {}
        /\ BudgetsNamed(budgets, ren.hid, ren.oldName) = {}

(***************************************************************************)
(* C16: with nothing running next to it, deleteCategoryIfUnused on a       *)
(* category named by a transaction or a budget row of the household ends   *)
(* with a "Category in use" error and deletes nothing; on a category named *)
(* by neither it deletes the category.                                     *)
(***************************************************************************)
\* no correction was under way at the call, none has started since and no
\* rename has been called since
DeleteUndisturbed ==
    del.quiet /\ del.edits0 = nEdits /\ del.renames0 = ren.n

InUseErrors ==
    {"Category in use by transactions", "Category in use by budgets"}

DeleteOnlyIfUnused ==
    (del.pc \in {"returned", "thrown"} /\ DeleteUndisturbed) =>
        IF del.used
        THEN /\ del.pc = "thrown"
             /\ del.failed = {} => del.error \in InUseErrors
             /\ cats = del.cats0
             /\ store = del.store0
             /\ budgets = del.budgets0
        ELSE del.failed = {} =>
                /\ del.pc = "returned"
                /\ cats = {c \in del.cats0 : c.id # del.id}

\* the deletion of a category named by a budget row only has been refused
DeleteRefusedForBudget ==
    /\ del.pc = "thrown"
    /\ DeleteUndisturbed
    /\ del.error = "Category in use by budgets"
    /\ cats = del.cats0

(***************************************************************************)
(* C17: a category is never deleted while a transaction or a budget row of *)
(* its household names it, also when a category correction lands between   *)
(* the counting queries and the delete.                                    *)
(***************************************************************************)
DeletedOnlyWhenUnused == del.pc = "returned" => ~del.usedAtDelete

(***************************************************************************)
(* C21: a transaction created by onAdd has source "manual" and no external *)
(* identifier; one created by commitImport has source "import", category   *)
(* "Uncategorized" when created and the fingerprint of its own date,       *)
(* amount, merchant and description as external identifier; a category     *)
(* correction leaves source and external identifier as they are.           *)
(***************************************************************************)
FingerprintFields(t) ==
    [date |-> t.date, amount |-> t.amount, merchant |-> t.merchant,
     description |-> t.description]

\* the fingerprint of every transaction an import of Sheets can build
ImportFingerprints ==
    LET built == {p.txn[1] : p \in {q \in {ProcessedRows[k] : k \in DOMAIN ProcessedRows} :
                                        q.outcome = "insert"}}
    IN  [f \in {FingerprintFields(t) : t \in built} |->
            fingerprint(f.date, f.amount, f.merchant, f.description)]

\* the rows an insert of commitImport has stored
NewImportRows == IF insertReturn THEN store' \ store ELSE {}

CreatedAs(t) ==
    IF t.source = "manual" THEN t.external_id = Null
    ELSE /\ t.source = "import"
         /\ FingerprintFields(t) \in DOMAIN ImportFingerprints
         /\ t.external_id = ImportFingerprints[FingerprintFields(t)]

SourceAndExternalIdKept ==
    [][/\ \A t \in NewRows : t.source = "manual" /\ CreatedAs(t)
       /\ \A t \in NewImportRows :
            t.source = "import" /\ t.category = "Uncategorized" /\ CreatedAs(t)
       /\ \A t \in store' : CreatedAs(t)
       /\ \A t \in store : \A u \in store' :
            u.id = t.id =>
                u.source = t.source /\ u.external_id = t.external_id]_vars

\* an imported and a manual transaction are stored, and the imported one
\* has been given a category since
ImportedRowRecategorized ==
    /\ \E t \in store : t.source = "manual"
    /\ \E t \in store :
        /\ t.source = "import"
        /\ t.category # "Uncategorized"
        /\ t.external_id = ImportFingerprints[FingerprintFields(t)]

(***************************************************************************)
(* C22: fingerprint is the decimal rendering of the fold                   *)
(* hash = hash * 31 + charCode, wrapped to the signed 32-bit range after   *)
(* every character and started from 0, over date|cents|MERCHANT|DESCRIPTION; *)
(* the shift-and-subtract of the code gives that value on overflow and for *)
(* negative accumulators too.                                              *)
(***************************************************************************)
\* (h * 31 + c) wrapped to 32 bits, on 16-bit halves
Times31Plus(h, c) ==
    LET lo == Lo16(h) * 31 + c
        hi == Hi16(h) * 31 + lo \div 65536
    IN  Int32Of(hi % 65536, lo % 65536)

RECURSIVE Fold31(_, _, _)
Fold31(s, i, h) ==
    IF i > Len(s) THEN h
    ELSE LET next == Times31Plus(h, s[i])
         IN  \* the test has TLC compute next before the following step
             IF next \in Int THEN Fold31(s, i + 1, next) ELSE 0

FoldedString(f) ==
    Slice10(f.date) \o <<124>> \o IntToStr(RoundCents(Abs(f.amount)))
        \o <<124>> \o cleanStr(f.merchant) \o <<124>> \o cleanStr(f.description)

FingerprintIsFold31 ==
    fingerprint(fnIn.date, fnIn.amount, fnIn.merchant, fnIn.description)
        = IntToStr(Fold31(FoldedString(fnIn), 1, 0))

\* the fold has wrapped: the fingerprint returned is a negative number
FingerprintWrapped ==
    /\ fnPc = "done"
    /\ fnOut = IntToStr(Fold31(FoldedString(fnIn), 1, 0))
    /\ Head(fnOut) = 45

(***************************************************************************)
(* C23: commitImport deals with the rows one at a time in the order of the *)
(* sheet: at most one insert is in flight, it is the insert of the row     *)
(* after those dealt with, and every row before it has its outcome (added, *)
(* duplicate, failed or skipped) while no row after it has been touched.   *)
(***************************************************************************)
\* what the loop body makes of row i of the running import
RowOf(i) == ProcessedRows[imp.rows[i], imp.mapping, imp.hid, runFlag, dateImpl]

RowsOneAtATime ==
    /\ Len(inflight) <= 1
    /\ inflight # <<>> <=> importPc = "await"
    /\ importPc # "idle" =>
        /\ Len(rowLog) = idx
        /\ idx <= Len(imp.rows)
        /\ \A i \in 1..idx :
            IF RowOf(i).outcome = "insert" THEN InsertAttempted(i)
            ELSE rowLog[i] = RowOf(i).outcome
    /\ importPc = "await" =>
        /\ idx < Len(imp.rows)
        /\ RowOf(idx + 1).outcome = "insert"
        /\ inflight = RowOf(idx + 1).txn
    /\ ImportOver => idx = Len(imp.rows)

\* the insert of the second row is in flight and the insert of the first
\* row has been answered
SecondInsertInFlight ==
    /\ importPc = "await"
    /\ idx = 1
    /\ InsertAttempted(1)

(***************************************************************************)
(* C24: on a D/M/Y-shaped string that the generic parser rejects, toISO    *)
(* returns the date of a reading only when that reading is a calendar date *)
(* (month 1..12, day within the month, a year below 100 taken as 2000 +    *)
(* year), never a date rolled over from an out-of-range day or month, and  *)
(* returns null when neither reading is a calendar date.                   *)
(***************************************************************************)
CalendarYear(c) == IF c < 100 THEN 2000 + c ELSE c

IsCalendarDate(y, m, d) == m \in 1..12 /\ d \in 1..DaysInMonth(y, m)

\* the readings of the fields a, b, c that are calendar dates, in ISO form
CalendarReadings(mm) ==
    {ISODate(DaysFromCivil(CalendarYear(mm.c), r.m, r.d)) :
        r \in {x \in {[d |-> mm.a, m |-> mm.b], [d |-> mm.b, m |-> mm.a]} :
                  IsCalendarDate(CalendarYear(mm.c), x.m, x.d)}}

ToISOCalendarDatesOnly ==
    (fnPc = "done" /\ ~NewDate(fnIn, dateImpl).fin /\ DmyMatches(fnIn) # {}) =>
        IF CalendarReadings(DmyMatch(fnIn)) = {} THEN fnOut = Null
        ELSE fnOut \in CalendarReadings(DmyMatch(fnIn))

(***************************************************************************)
(* C25: when the transaction update of onChangeCategory(id, cat) succeeds, *)
(* the saved rules of the household the correction was made in map the key *)
(* of the transaction (its merchant, or its description when the merchant  *)
(* is empty, normalised by normKey) to cat; where no other correction has  *)
(* written the rules since the handler was called, every other key keeps   *)
(* its value and the rules of the other households are untouched.  When    *)
(* the update fails, no saved rules change.                                *)
(***************************************************************************)
CorrectionKey(id) ==
    LET row == CHOOSE t \in store : t.id = id
    IN  normKey(IF row.merchant \in {<<>>, Null} THEN row.description
                ELSE row.merchant)

Answered == IF updateReturn THEN edits \ edits' ELSE {}

CorrectionLearned ==
    [][\A e \in Answered :
        IF alerted' = NoAlert
        THEN /\ CorrectionKey(e.id) \in DOMAIN lsRules'[e.hid]
             /\ lsRules'[e.hid][CorrectionKey(e.id)] = e.cat
             /\ e.rules = lsRules[e.hid] =>
                 /\ DOMAIN lsRules'[e.hid] =
                        DOMAIN lsRules[e.hid] \cup {CorrectionKey(e.id)}
                 /\ \A k \in DOMAIN lsRules[e.hid] \ {CorrectionKey(e.id)} :
                        lsRules'[e.hid][k] = lsRules[e.hid][k]
                 /\ \A h \in DOMAIN lsRules \ {e.hid} :
                        lsRules'[h] = lsRules[h]
        ELSE lsRules' = lsRules]_vars

\* the refund of h1 was corrected to Groceries: its key is saved next to the
\* rule the household already had, which kept its value
RefundRuleLearned ==
    /\ \E t \in store : t.id = EarlierRefund.id /\ t.category = "Groceries"
    /\ lsRules["h1"] =
           (normKey(sRefund) :> "Groceries") @@ StoredRules["h1"]
    /\ DOMAIN StoredRules["h1"] \ {normKey(sRefund)} # {}

(***************************************************************************)
(* C26: the merchant guess of an imported row is made of the first six     *)
(* whitespace-delimited tokens of the trimmed description, joined by       *)
(* single spaces, whatever whitespace separates the tokens.                *)
(***************************************************************************)
RECURSIVE TokensFrom(_, _, _)
\* the whitespace-delimited tokens of s from position i on, cur being the
\* token under way
TokensFrom(s, i, cur) ==
    IF i > Len(s) THEN (IF cur = <<>> THEN <<>> ELSE <<cur>>)
    ELSE IF IsSpace(s[i])
    THEN (IF cur = <<>> THEN <<>> ELSE <<cur>>) \o TokensFrom(s, i + 1, <<>>)
    ELSE TokensFrom(s, i + 1, Append(cur, s[i]))

RECURSIVE JoinSpaced(_)
JoinSpaced(tokens) ==
    IF tokens = <<>> THEN <<>>
    ELSE IF Len(tokens) = 1 THEN tokens[1]
    ELSE tokens[1] \o <<32>> \o JoinSpaced(Tail(tokens))

FirstTokens(tokens) ==
    SubSeq(tokens, 1,
           IF Len(tokens) < MerchantTokens THEN Len(tokens)
           ELSE MerchantTokens)

MerchantOfWhitespaceTokens ==
    fnPc = "done" =>
        fnOut = JoinSpaced(FirstTokens(TokensFrom(Trim(fnIn), 1, <<>>)))

(***************************************************************************)
(* C27: no learn-rule update is lost: once the corrections of two rows     *)
(* with different keys have both completed, also when the second was       *)
(* started before the update of the first had answered, the saved rules of *)
(* the household hold the entry of each.                                   *)
(***************************************************************************)
\* the row as it is stored now
Stored(r) == CHOOSE t \in store : t.id = r.id

BothCorrected ==
    /\ edits = {}
    /\ \A r \in EarlierTxns : Stored(r).category # r.category

NoRuleLost ==
    BothCorrected =>
        \A r \in EarlierTxns :
            /\ normKey(r.merchant) \in DOMAIN lsRules[r.household_id]
            /\ lsRules[r.household_id][normKey(r.merchant)]
                   = Stored(r).category

(***************************************************************************)
(* C28: once every list query and every insert has answered, the list in   *)
(* memory holds only transactions of the active household, also when the   *)
(* household was switched while a query of the previous one was in flight  *)
(* and the answers came back in another order than the queries went out.   *)
(***************************************************************************)
NothingPending == listInFlight = {} /\ inflight = <<>>

ListOfActiveHousehold ==
    NothingPending =>
        \A i \in 1..Len(txns) : txns[i].household_id = householdId

(***************************************************************************)
(* C29: a commitImport that passes the mapping validation sets importBusy  *)
(* and, when every awaited insert answers (a row, a duplicate or an error) *)
(* and the closing alert is dismissed, ends with importBusy false again; a *)
(* commitImport stopped by the mapping validation leaves importBusy false. *)
(***************************************************************************)
Rejected == commitImport /\ validateMapping(mapping) # "null"

Accepted == commitImport /\ validateMapping(mapping) = "null"

DeletedHouseholds == Households \ HouseholdIds(dbHouseholds)

SavedHouseholdExists ==
    delHH.pc = "idle" =>
        /\ lsActive \notin DeletedHouseholds
        /\ ensureHousehold.hid \notin DeletedHouseholds

====
